---------------------------- MODULE Spec2Model ----------------------------
(***************************************************************************)
(* Echo Bridge convolution reverb.                                         *)
(*                                                                         *)
(* Two builds of the pedal live in the repository:                         *)
(*   src/src/EchoBridgeWithUSB.cpp  PartitionedConvolutionReverb `reverb'  *)
(*                                  (early + late tier), controls handled  *)
(*                                  in the main loop, audio in a callback  *)
(*   src/EchoBridgeWithUSB.cpp      ConvolutionReverb `convReverb' (one    *)
(*                                  tier), controls handled inside the     *)
(*                                  audio callback                         *)
(* Both use ShyFFT (src/src/shy_fft.h).                                    *)
(*                                                                         *)
(* Arrays are functions on 0..N-1, as in the C++.  The sizes are scaled    *)
(* down (64/1024-point transforms become 2/4-point ones, whose twiddle     *)
(* factors 1 and -i are exact integers) and floats are fixed-point         *)
(* integers: an audio sample of 1.0 is the integer 32, impulse-response    *)
(* samples are small whole numbers, and the 0..1 / 0..2 parameters are     *)
(* counted in halves (dryWet = 1 means 0.5).  With these inputs every      *)
(* division the model performs (1/N in Inverse, 0.5 in the width stage,    *)
(* the halves of the parameters) is exact.                                 *)
(***************************************************************************)
EXTENDS Integers, Sequences, FiniteSets, TLC

(***************************************************************************)
(* Program constants (scaled)                                              *)
(***************************************************************************)
EARLY_FFT_SIZE == 2
LATE_FFT_SIZE == 4
MAX_PREDELAY_SAMPLES == 3
MAX_IR_LENGTH == 7

(***************************************************************************)
(* Small helpers                                                           *)
(***************************************************************************)
Zeros(n) == [i \in 0..(n - 1) |-> 0]

Min(a, b) == IF a < b THEN a ELSE b

Pow2(k) == IF k = 0 THEN 1 ELSE IF k = 1 THEN 2 ELSE IF k = 2 THEN 4 ELSE 8

\* (size_t)(num / den) for a float quotient: truncation towards zero; a
\* quotient of -1 or less is outside size_t and the conversion undefined.
\* castWraps tells what the build makes of it: a value wrapped to the top of
\* the size_t range (TRUE; 2^31 - 1 stands for it here) or zero, as the
\* saturating conversion of the Cortex-M7 gives (FALSE)
SizeT(num, den, castWraps) ==
    IF num >= 0 THEN num \div den
    ELSE IF (-num) \div den = 0 THEN 0
    ELSE IF castWraps THEN 2147483647
    ELSE 0

(***************************************************************************)
(* ShyFFT<T, N>                                                            *)
(***************************************************************************)
RECURSIVE log2N(_)
log2N(N) == IF N > 1 THEN 1 + log2N(N \div 2) ELSE 0

RECURSIVE BitReverseLoop(_, _, _, _)
BitReverseLoop(result, index, i, bits) ==
    IF i >= bits THEN result
    ELSE BitReverseLoop(2 * result + (index % 2), index \div 2, i + 1, bits)

\* The index rotated right by one bit instead of reversed
BitRotate(index, bits) ==
    IF bits = 0 THEN 0 ELSE (index \div 2) + ((index % 2) * (2^(bits - 1)))

BitReverse(index, bits) == BitReverseLoop(0, index, 0, bits)

\* void Init(): bit_reverse_[i] = BitReverse(i, log2N()) for i < N
ShyFFTInit(N) == [i \in 0..(N - 1) |-> BitReverse(i, log2N(N))]

\* The transform sizes the program instantiates
FftSizes == {EARLY_FFT_SIZE, LATE_FFT_SIZE}

\* bit_reverse_[i], filled by Init()
BitReverseTable == [N \in FftSizes |-> ShyFFTInit(N)]

bit_reverse_(N) == BitReverseTable[N]

\* twiddles_real_[i] = cos(-2 pi i / N): 1 at angle 0, 0 at angle -pi/2
TwiddlesRealTable ==
    [N \in FftSizes |-> [i \in 0..((N \div 2) - 1) |-> IF i = 0 THEN 1 ELSE 0]]

twiddles_real_(N) == TwiddlesRealTable[N]

\* twiddles_imag_[i] = sin(-2 pi i / N): 0 at angle 0, -1 at angle -pi/2
TwiddlesImagTable ==
    [N \in FftSizes |-> [i \in 0..((N \div 2) - 1) |-> IF i = 0 THEN 0 ELSE -1]]

twiddles_imag_(N) == TwiddlesImagTable[N]

\* One stage of Direct's butterfly loops: the pairs (i1, i2 = i1 + m2) of a
\* stage are disjoint, so the in-place loop is this map.  Only the real
\* product re is used; the imaginary part of output[i2] is taken as 0 and im
\* is dropped.
DirectStage(N, output, stage) ==
    LET m  == Pow2(stage)
        m2 == m \div 2
        tw(i2) == (((i2 % m) - m2) * N) \div m
        re(i2) == (output[i2] * twiddles_real_(N)[tw(i2)])
                  - (0 * twiddles_imag_(N)[tw(i2)])
    IN [i \in 0..(N - 1) |->
          IF (i % m) < m2 THEN output[i] + re(i + m2)
                          ELSE output[i - m2] - re(i)]

RECURSIVE DirectStages(_, _, _)
DirectStages(N, output, stage) ==
    IF stage > log2N(N) THEN output
    ELSE DirectStages(N, DirectStage(N, output, stage), stage + 1)

\* void Direct(const T* input, T* output)
Direct(N, input) ==
    DirectStages(N, [i \in 0..(N - 1) |-> input[bit_reverse_(N)[i]]], 1)

\* One stage of Complex's butterfly loops on the pair (temp_real, temp_imag)
ComplexStage(N, t, stage) ==
    LET m  == Pow2(stage)
        m2 == m \div 2
        tw(i2) == (((i2 % m) - m2) * N) \div m
        re(i2) == (t.real[i2] * twiddles_real_(N)[tw(i2)])
                  - (t.imag[i2] * twiddles_imag_(N)[tw(i2)])
        im(i2) == (t.real[i2] * twiddles_imag_(N)[tw(i2)])
                  + (t.imag[i2] * twiddles_real_(N)[tw(i2)])
    IN [real |-> [i \in 0..(N - 1) |->
                    IF (i % m) < m2 THEN t.real[i] + re(i + m2)
                                    ELSE t.real[i - m2] - re(i)],
        imag |-> [i \in 0..(N - 1) |->
                    IF (i % m) < m2 THEN t.imag[i] + im(i + m2)
                                    ELSE t.imag[i - m2] - im(i)]]

RECURSIVE ComplexStages(_, _, _)
ComplexStages(N, t, stage) ==
    IF stage > log2N(N) THEN t
    ELSE ComplexStages(N, ComplexStage(N, t, stage), stage + 1)

\* void Complex(T* real, T* imag, size_t size), size = N.
\* temp[bit_reverse_[i]] = x[i], i.e. temp[j] = x[k] for the k with
\* bit_reverse_[k] = j.
Complex(N, real, imag) ==
    LET src(j) == CHOOSE k \in 0..(N - 1) : bit_reverse_(N)[k] = j
    IN ComplexStages(N, [real |-> [j \in 0..(N - 1) |-> real[src(j)]],
                         imag |-> [j \in 0..(N - 1) |-> imag[src(j)]]], 1)

\* real[i] *= 1.0 / size
Scale(v, size) == v \div size

\* void Inverse(T* real, T* imag, size_t size), size = N
Inverse(N, real, imag) ==
    LET c == Complex(N, real, [i \in 0..(N - 1) |-> -imag[i]])
    IN [real |-> [i \in 0..(N - 1) |-> Scale(c.real[i], N)],
        imag |-> [i \in 0..(N - 1) |-> Scale(c.imag[i], N)]]

(***************************************************************************)
(* State                                                                   *)
(***************************************************************************)
VARIABLES
    reverb,         \* PartitionedConvolutionReverb reverb: its data members
    sdram,          \* the DSY_SDRAM_BSS globals g_late*, g_predelay*
    bypass,         \* bool bypass
    freeze,         \* bool freeze
    isStereoInput,  \* bool isStereoInput
    ctl,            \* where the main loop stands inside a control call
    tick,           \* what the last audio tick saw and produced
    hist,           \* per Process tick with an IR: input pair and wet sums
    load,           \* the LoadIR / LoadStereoIR call just made, if any
    loadedOk,       \* some LoadIR / LoadStereoIR call has returned true
    fft,            \* a transform under test: size, input, spectrum, output
    pub,            \* the spectra before and after the update in progress
    convReverb,     \* root build: ConvolutionReverb convReverb
    root,           \* root build: irMode, usbMounted and the IR arrays
    n               \* audio ticks so far

rootVars == << convReverb, root >>

NULL == << >>

\* daisysp::Svf stand-in (library code): the cutoff and a one-sample memory
SvfInit == [freq |-> 0, z |-> 0]

SvfSetFreq(f, freq) == [f EXCEPT !.freq = freq]

SvfProcess(f, in) == [f EXCEPT !.z = in]

\* High() after Process(in) on filter state f: first difference
SvfHigh(f, in) == in - f.z

\* Low() after Process(in) on filter state f: two-sample sum
SvfLow(f, in) == in + f.z

\* void UpdateFilters()
UpdateFilters(r) ==
    [r EXCEPT !.lowCutFilterL  = SvfSetFreq(@, r.lowCutFreq),
              !.highCutFilterL = SvfSetFreq(@, r.highCutFreq),
              !.lowCutFilterR  = SvfSetFreq(@, r.lowCutFreq),
              !.highCutFilterR = SvfSetFreq(@, r.highCutFreq)]

\* PartitionedConvolutionReverb() followed by Init(sample_rate) in main()
ReverbInit ==
    UpdateFilters(
    [irBuffer |-> NULL, irBufferRight |-> NULL, irLength |-> 0,
     earlyTimeOut |-> Zeros(EARLY_FFT_SIZE),
     earlyIrFreqReal |-> Zeros(EARLY_FFT_SIZE),
     earlyIrFreqImag |-> Zeros(EARLY_FFT_SIZE),
     earlyIrFreqRealRight |-> Zeros(EARLY_FFT_SIZE),
     earlyIrFreqImagRight |-> Zeros(EARLY_FFT_SIZE),
     earlyInputBuffer |-> Zeros(EARLY_FFT_SIZE),
     earlyInputBufferRight |-> Zeros(EARLY_FFT_SIZE),
     earlyOutputBuffer |-> Zeros(2 * EARLY_FFT_SIZE),
     earlyOutputBufferRight |-> Zeros(2 * EARLY_FFT_SIZE),
     earlyInputBufferPos |-> 0, lateInputBufferPos |-> 0,
     predelayBufferPos |-> 0, predelayInSamples |-> 0,
     dryWet |-> 1, predelayMs |-> 0, irLengthFactor |-> 2,
     lowCutFreq |-> 100, highCutFreq |-> 10000, stereoWidth |-> 2,
     sampleRate |-> 6, trueStereoIR |-> FALSE, castWraps |-> FALSE,
     lowCutFilterL |-> SvfInit, highCutFilterL |-> SvfInit,
     lowCutFilterR |-> SvfInit, highCutFilterR |-> SvfInit])

SdramInit ==
    [g_lateInputBuffer |-> Zeros(LATE_FFT_SIZE),
     g_lateInputBufferRight |-> Zeros(LATE_FFT_SIZE),
     g_lateOutputBuffer |-> Zeros(2 * LATE_FFT_SIZE),
     g_lateOutputBufferRight |-> Zeros(2 * LATE_FFT_SIZE),
     g_lateTimeOut |-> Zeros(LATE_FFT_SIZE),
     g_lateIrFreqReal |-> Zeros(LATE_FFT_SIZE),
     g_lateIrFreqImag |-> Zeros(LATE_FFT_SIZE),
     g_lateIrFreqRealRight |-> Zeros(LATE_FFT_SIZE),
     g_lateIrFreqImagRight |-> Zeros(LATE_FFT_SIZE),
     g_predelayBuffer |-> Zeros(MAX_PREDELAY_SAMPLES),
     g_predelayBufferRight |-> Zeros(MAX_PREDELAY_SAMPLES)]

(***************************************************************************)
(* PartitionedConvolutionReverb::UpdateIRFrequencyDomain, statement by     *)
(* statement.  An engine state is the pair e = [r |-> reverb, g |-> sdram].*)
(***************************************************************************)
\* size_t effectiveIrLength = (size_t)(irLength * irLengthFactor), limited
EffectiveIrLength(r) ==
    LET effectiveIrLength == SizeT(r.irLength * r.irLengthFactor, 2, r.castWraps)
    IN IF effectiveIrLength > r.irLength THEN r.irLength ELSE effectiveIrLength

\* memset + memcpy of count samples of buf, from offset, into a block of size
Padded(buf, offset, count, size) ==
    [i \in 0..(size - 1) |-> IF i < count THEN buf[offset + i] ELSE 0]

\* The early block filled from the whole IR, whatever the length factor
earlyLengthWhole(r) == Min(r.irLength, EARLY_FFT_SIZE)

\* line 132: (effectiveIrLength < EARLY_FFT_SIZE) ? effectiveIrLength : EARLY_FFT_SIZE
earlyLength(r) == Min(EffectiveIrLength(r), EARLY_FFT_SIZE)

earlyIrPadded(r) == Padded(r.irBuffer, 0, earlyLength(r), EARLY_FFT_SIZE)

earlyIrPaddedRight(r) ==
    IF r.trueStereoIR
    THEN Padded(r.irBufferRight, 0, earlyLength(r), EARLY_FFT_SIZE)
    ELSE Padded(r.irBuffer, 0, earlyLength(r), EARLY_FFT_SIZE)

lateLength(r) == Min(EffectiveIrLength(r) - EARLY_FFT_SIZE, LATE_FFT_SIZE)

lateIrPadded(r) ==
    Padded(r.irBuffer, EARLY_FFT_SIZE, lateLength(r), LATE_FFT_SIZE)

lateIrPaddedRight(r) ==
    IF r.trueStereoIR
    THEN Padded(r.irBufferRight, EARLY_FFT_SIZE, lateLength(r), LATE_FFT_SIZE)
    ELSE Padded(r.irBuffer, EARLY_FFT_SIZE, lateLength(r), LATE_FFT_SIZE)

\* lines 112-120: the eight memsets
UpdClear(e) ==
    [r |-> [e.r EXCEPT !.earlyIrFreqReal = Zeros(EARLY_FFT_SIZE),
                       !.earlyIrFreqImag = Zeros(EARLY_FFT_SIZE),
                       !.earlyIrFreqRealRight = Zeros(EARLY_FFT_SIZE),
                       !.earlyIrFreqImagRight = Zeros(EARLY_FFT_SIZE)],
     g |-> [e.g EXCEPT !.g_lateIrFreqReal = Zeros(LATE_FFT_SIZE),
                       !.g_lateIrFreqImag = Zeros(LATE_FFT_SIZE),
                       !.g_lateIrFreqRealRight = Zeros(LATE_FFT_SIZE),
                       !.g_lateIrFreqImagRight = Zeros(LATE_FFT_SIZE)]]

\* line 144: earlyFft.Direct(earlyIrPadded, earlyTimeOut)
UpdEarlyFftL(e) ==
    [e EXCEPT !.r.earlyTimeOut = Direct(EARLY_FFT_SIZE, earlyIrPadded(e.r))]

\* lines 145-148
UpdEarlyCopyL(e) ==
    [e EXCEPT !.r.earlyIrFreqReal = e.r.earlyTimeOut,
              !.r.earlyIrFreqImag = Zeros(EARLY_FFT_SIZE)]

\* line 150
UpdEarlyFftR(e) ==
    [e EXCEPT !.r.earlyTimeOut =
                  Direct(EARLY_FFT_SIZE, earlyIrPaddedRight(e.r))]

\* lines 151-154
UpdEarlyCopyR(e) ==
    [e EXCEPT !.r.earlyIrFreqRealRight = e.r.earlyTimeOut,
              !.r.earlyIrFreqImagRight = Zeros(EARLY_FFT_SIZE)]

\* line 157: if (effectiveIrLength > EARLY_FFT_SIZE)
HasLatePart(r) == EffectiveIrLength(r) > EARLY_FFT_SIZE

\* The indices of irBuffer the memcpy calls of lines 133 and 168 read
IrReads(r) ==
    (0..(earlyLength(r) - 1))
    \cup (IF HasLatePart(r)
          THEN EARLY_FFT_SIZE..(EARLY_FFT_SIZE + lateLength(r) - 1)
          ELSE {})

\* line 177
UpdLateFftL(e) ==
    [e EXCEPT !.g.g_lateTimeOut = Direct(LATE_FFT_SIZE, lateIrPadded(e.r))]

\* lines 178-181
UpdLateCopyL(e) ==
    [e EXCEPT !.g.g_lateIrFreqReal = e.g.g_lateTimeOut,
              !.g.g_lateIrFreqImag = Zeros(LATE_FFT_SIZE)]

\* line 183
UpdLateFftR(e) ==
    [e EXCEPT !.g.g_lateTimeOut =
                  Direct(LATE_FFT_SIZE, lateIrPaddedRight(e.r))]

\* lines 184-187
UpdLateCopyR(e) ==
    [e EXCEPT !.g.g_lateIrFreqRealRight = e.g.g_lateTimeOut,
              !.g.g_lateIrFreqImagRight = Zeros(LATE_FFT_SIZE)]

\* The statements of UpdateIRFrequencyDomain in program order
UpdSteps == << "clear", "earlyFftL", "earlyCopyL", "earlyFftR", "earlyCopyR",
               "lateFftL", "lateCopyL", "lateFftR", "lateCopyR" >>

UpdStep(e, pc) ==
    CASE pc = "clear"      -> UpdClear(e)
      [] pc = "earlyFftL"  -> UpdEarlyFftL(e)
      [] pc = "earlyCopyL" -> UpdEarlyCopyL(e)
      [] pc = "earlyFftR"  -> UpdEarlyFftR(e)
      [] pc = "earlyCopyR" -> UpdEarlyCopyR(e)
      [] pc = "lateFftL"   -> UpdLateFftL(e)
      [] pc = "lateCopyL"  -> UpdLateCopyL(e)
      [] pc = "lateFftR"   -> UpdLateFftR(e)
      [] pc = "lateCopyR"  -> UpdLateCopyR(e)

\* The statement after pc, "done" after the last; the late part is skipped
\* when the truncated IR ends inside the early block.
UpdNextPc(r, pc) ==
    CASE pc = "clear"      -> "earlyFftL"
      [] pc = "earlyFftL"  -> "earlyCopyL"
      [] pc = "earlyCopyL" -> "earlyFftR"
      [] pc = "earlyFftR"  -> "earlyCopyR"
      [] pc = "earlyCopyR" -> IF HasLatePart(r) THEN "lateFftL" ELSE "done"
      [] pc = "lateFftL"   -> "lateCopyL"
      [] pc = "lateCopyL"  -> "lateFftR"
      [] pc = "lateFftR"   -> "lateCopyR"
      [] pc = "lateCopyR"  -> "done"

RECURSIVE UpdRun(_, _)
UpdRun(e, pc) ==
    IF pc = "done" THEN e ELSE UpdRun(UpdStep(e, pc), UpdNextPc(e.r, pc))

\* bool UpdateIRFrequencyDomain(), run without interruption
UpdateIRFrequencyDomain(e) == UpdRun(e, "clear")

(***************************************************************************)
(* LoadIR / LoadStereoIR / setters                                         *)
(***************************************************************************)
\* if (length == 0 || length > MAX_IR_LENGTH) return false;
LengthValid(length) == ~(length = 0 \/ length > MAX_IR_LENGTH)

\* LoadIR restarting the early tier's input accumulator as well
LoadIRStoreRestart(e, buffer, length) ==
    [e EXCEPT !.r.irBuffer = [i \in 0..(length - 1) |-> buffer[i]],
              !.r.irLength = length,
              !.r.trueStereoIR = FALSE,
              !.r.earlyInputBufferPos = 0]

\* lines 268-284 of LoadIR: the new buffer, irLength, trueStereoIR = false
LoadIRStore(e, buffer, length) ==
    [e EXCEPT !.r.irBuffer = [i \in 0..(length - 1) |-> buffer[i]],
              !.r.irLength = length,
              !.r.trueStereoIR = FALSE]

\* LoadStereoIR leaving the engine in mono mode
LoadStereoIRStoreMono(e, bufferL, bufferR, length) ==
    [e EXCEPT !.r.irBuffer = [i \in 0..(length - 1) |-> bufferL[i]],
              !.r.irBufferRight = [i \in 0..(length - 1) |-> bufferR[i]],
              !.r.irLength = length,
              !.r.trueStereoIR = FALSE]

\* lines 297-330 of LoadStereoIR
LoadStereoIRStore(e, bufferL, bufferR, length) ==
    [e EXCEPT !.r.irBuffer = [i \in 0..(length - 1) |-> bufferL[i]],
              !.r.irBufferRight = [i \in 0..(length - 1) |-> bufferR[i]],
              !.r.irLength = length,
              !.r.trueStereoIR = TRUE]

\* bool LoadIR(float* buffer, size_t length): [e |-> state after, ret |-> result]
LoadIR(e, buffer, length) ==
    IF ~LengthValid(length) THEN [e |-> e, ret |-> FALSE]
    ELSE [e |-> UpdateIRFrequencyDomain(LoadIRStore(e, buffer, length)),
          ret |-> TRUE]

\* bool LoadStereoIR(float* bufferL, float* bufferR, size_t length)
LoadStereoIR(e, bufferL, bufferR, length) ==
    IF ~LengthValid(length) THEN [e |-> e, ret |-> FALSE]
    ELSE [e |-> UpdateIRFrequencyDomain(
                    LoadStereoIRStore(e, bufferL, bufferR, length)),
          ret |-> TRUE]

\* void SetDryWet(float value)
SetDryWet(e, value) == [e EXCEPT !.r.dryWet = value]

\* The conversion without the limit that follows it
PredelaySamplesNoLimit(ms, sampleRate, castWraps) ==
    SizeT(ms * sampleRate, 1000, castWraps)

\* (size_t)(predelayMs * sampleRate / 1000.0f), then the limit
PredelaySamples(ms, sampleRate, castWraps) ==
    LET predelayInSamples == SizeT(ms * sampleRate, 1000, castWraps)
    IN IF predelayInSamples >= MAX_PREDELAY_SAMPLES
       THEN MAX_PREDELAY_SAMPLES - 1 ELSE predelayInSamples

\* void SetPredelay(float ms)
SetPredelay(e, ms) ==
    [e EXCEPT !.r.predelayMs = ms,
              !.r.predelayInSamples = PredelaySamples(ms, e.r.sampleRate, e.r.castWraps)]

\* void SetIRLengthFactor(float factor)
SetIRLengthFactor(e, factor) ==
    IF factor # e.r.irLengthFactor
    THEN UpdateIRFrequencyDomain([e EXCEPT !.r.irLengthFactor = factor])
    ELSE e

\* void SetLowCut(float freq)
SetLowCut(e, freq) ==
    [e EXCEPT !.r = UpdateFilters([e.r EXCEPT !.lowCutFreq = freq])]

\* void SetHighCut(float freq)
SetHighCut(e, freq) ==
    [e EXCEPT !.r = UpdateFilters([e.r EXCEPT !.highCutFreq = freq])]

\* void SetStereoWidth(float width)
SetStereoWidth(e, width) == [e EXCEPT !.r.stereoWidth = width]

(***************************************************************************)
(* PartitionedConvolutionReverb::Process                                   *)
(***************************************************************************)
\* Direct, copy to (real, 0), multiply by the stored spectrum, Inverse:
\* the time-domain block a tier computes for one channel.
ConvolveBlock(N, inputBuffer, irFreqReal, irFreqImag) ==
    LET timeOut  == Direct(N, inputBuffer)
        freqReal == [i \in 0..(N - 1) |-> timeOut[i]]
        freqImag == [i \in 0..(N - 1) |-> 0]
        mulReal  == [i \in 0..(N - 1) |->
                       (freqReal[i] * irFreqReal[i]) - (freqImag[i] * irFreqImag[i])]
        mulImag  == [i \in 0..(N - 1) |->
                       (freqReal[i] * irFreqImag[i]) + (freqImag[i] * irFreqReal[i])]
    IN [timeOut |-> timeOut, freq |-> Inverse(N, mulReal, mulImag)]

\* out[i] = out[i + N] + freqReal[i] for i < N, then the second half cleared
OverlapAdd(N, outputBuffer, freqReal) ==
    [i \in 0..(2 * N - 1) |->
        IF i < N THEN outputBuffer[i + N] + freqReal[i] ELSE 0]

\* for (i = 0; i < N - 1; i++) out[i] = out[i + 1];
ShiftOutput(N, outputBuffer) ==
    [i \in 0..(2 * N - 1) |->
        IF i < N - 1 THEN outputBuffer[i + 1] ELSE outputBuffer[i]]

\* lines 429-483: the early block.  The right channel's Inverse overwrites
\* earlyFreqReal before the overlap-add loop reads it for both channels.
EarlyBlock(r) ==
    LET left  == ConvolveBlock(EARLY_FFT_SIZE, r.earlyInputBuffer,
                               r.earlyIrFreqReal, r.earlyIrFreqImag)
        right == ConvolveBlock(EARLY_FFT_SIZE, r.earlyInputBufferRight,
                               r.earlyIrFreqRealRight, r.earlyIrFreqImagRight)
        earlyFreqReal == right.freq.real
    IN [r EXCEPT !.earlyTimeOut = right.timeOut,
                 !.earlyOutputBuffer =
                     OverlapAdd(EARLY_FFT_SIZE, @, earlyFreqReal),
                 !.earlyOutputBufferRight =
                     OverlapAdd(EARLY_FFT_SIZE, @, earlyFreqReal)]

\* lines 492-546: the late block, same shape on the SDRAM buffers
LateBlock(g) ==
    LET left  == ConvolveBlock(LATE_FFT_SIZE, g.g_lateInputBuffer,
                               g.g_lateIrFreqReal, g.g_lateIrFreqImag)
        right == ConvolveBlock(LATE_FFT_SIZE, g.g_lateInputBufferRight,
                               g.g_lateIrFreqRealRight, g.g_lateIrFreqImagRight)
        g_lateFreqReal == right.freq.real
    IN [g EXCEPT !.g_lateTimeOut = right.timeOut,
                 !.g_lateOutputBuffer =
                     OverlapAdd(LATE_FFT_SIZE, @, g_lateFreqReal),
                 !.g_lateOutputBufferRight =
                     OverlapAdd(LATE_FFT_SIZE, @, g_lateFreqReal)]

\* lines 404-414: store the input, read the delayed input, advance
PredelayStep(e, inL, inR) ==
    LET pos == e.r.predelayBufferPos
        bufL == [e.g.g_predelayBuffer EXCEPT ![pos] = inL]
        bufR == [e.g.g_predelayBufferRight EXCEPT ![pos] = inR]
        delayedPos == (pos + MAX_PREDELAY_SAMPLES - e.r.predelayInSamples)
                      % MAX_PREDELAY_SAMPLES
    IN [e |-> [e EXCEPT !.g.g_predelayBuffer = bufL,
                        !.g.g_predelayBufferRight = bufR,
                        !.r.predelayBufferPos = (pos + 1) % MAX_PREDELAY_SAMPLES],
        delayedPos |-> delayedPos,
        delayedL |-> bufL[delayedPos],
        delayedR |-> bufR[delayedPos]]

\* lines 416-421: the delayed pair into both tiers' input buffers
StoreInput(e, delayedL, delayedR) ==
    [e EXCEPT !.r.earlyInputBuffer[e.r.earlyInputBufferPos] = delayedL,
              !.r.earlyInputBufferRight[e.r.earlyInputBufferPos] = delayedR,
              !.g.g_lateInputBuffer[e.r.lateInputBufferPos] = delayedL,
              !.g.g_lateInputBufferRight[e.r.lateInputBufferPos] = delayedR]

\* lines 423-484 with the cursor reset one sample late
EarlyTierLateReset(e) ==
    IF e.r.earlyInputBufferPos + 1 > EARLY_FFT_SIZE
    THEN [e EXCEPT !.r = EarlyBlock([e.r EXCEPT !.earlyInputBufferPos = 0])]
    ELSE [e EXCEPT !.r.earlyInputBufferPos = @ + 1]

\* lines 423-484
EarlyTier(e) ==
    IF e.r.earlyInputBufferPos + 1 >= EARLY_FFT_SIZE
    THEN [e EXCEPT !.r = EarlyBlock([e.r EXCEPT !.earlyInputBufferPos = 0])]
    ELSE [e EXCEPT !.r.earlyInputBufferPos = @ + 1]

\* lines 486-547 with the cursor reset one sample late
LateTierLateReset(e) ==
    IF e.r.lateInputBufferPos + 1 > LATE_FFT_SIZE
    THEN [e EXCEPT !.r.lateInputBufferPos = 0, !.g = LateBlock(e.g)]
    ELSE [e EXCEPT !.r.lateInputBufferPos = @ + 1]

\* lines 486-547
LateTier(e) ==
    IF e.r.lateInputBufferPos + 1 >= LATE_FFT_SIZE
    THEN [e EXCEPT !.r.lateInputBufferPos = 0, !.g = LateBlock(e.g)]
    ELSE [e EXCEPT !.r.lateInputBufferPos = @ + 1]

\* The stage with the side not halved
StereoWidthSideNotHalved(width, filteredL, filteredR) ==
    IF width # 2
    THEN LET mid  == (filteredL + filteredR) \div 2
             side == ((filteredL - filteredR) * width) \div 2
         IN [L |-> mid + side, R |-> mid - side]
    ELSE [L |-> filteredL, R |-> filteredR]

\* lines 564-570: mid/side on the filtered pair
StereoWidth(width, filteredL, filteredR) ==
    IF width # 2
    THEN LET mid  == (filteredL + filteredR) \div 2
             side == (((filteredL - filteredR) \div 2) * width) \div 2
         IN [L |-> mid + side, R |-> mid - side]
    ELSE [L |-> filteredL, R |-> filteredR]

\* lines 572-574: in * (1 - dryWet) + filtered * dryWet
Mix(dryWet, in, filtered) ==
    ((in * (2 - dryWet)) \div 2) + ((filtered * dryWet) \div 2)

\* lines 576-585
ShiftOutputs(e) ==
    [e EXCEPT !.r.earlyOutputBuffer = ShiftOutput(EARLY_FFT_SIZE, @),
              !.r.earlyOutputBufferRight = ShiftOutput(EARLY_FFT_SIZE, @),
              !.g.g_lateOutputBuffer = ShiftOutput(LATE_FFT_SIZE, @),
              !.g.g_lateOutputBufferRight = ShiftOutput(LATE_FFT_SIZE, @)]

\* A pass-through that copies the left input to both outputs
PassThroughLeftOnly(inL, inR) == [outL |-> inL, outR |-> inL]

\* lines 398-402: if (!irBuffer) { *outL = inL; *outR = inR; return; }
PassThrough(inL, inR) == [outL |-> inL, outR |-> inR]

\* lines 549-562: the wet pair read from the tiers' output buffers, through
\* the low-cut and high-cut filters.  The filters' outputs and their new state.
ProcessFilters(r, wetL, wetR) ==
    LET lowL == SvfHigh(r.lowCutFilterL, wetL)
        lowR == SvfHigh(r.lowCutFilterR, wetR)
    IN [filtL |-> SvfLow(r.highCutFilterL, lowL),
        filtR |-> SvfLow(r.highCutFilterR, lowR),
        r |-> [r EXCEPT !.lowCutFilterL = SvfProcess(@, wetL),
                        !.highCutFilterL = SvfProcess(@, lowL),
                        !.lowCutFilterR = SvfProcess(@, wetR),
                        !.highCutFilterR = SvfProcess(@, lowR)]]

\* lines 564-585: stereo width, dry/wet mix, output buffers shifted
ProcessOutput(e, inL, inR, pd, e2, wetL, wetR, f, w) ==
    [e |-> ShiftOutputs([e2 EXCEPT !.r = f.r]),
     outL |-> Mix(e.r.dryWet, inL, w.L),
     outR |-> Mix(e.r.dryWet, inR, w.R),
     hasIR |-> TRUE,
     delayedL |-> pd.delayedL, delayedR |-> pd.delayedR,
     wetL |-> wetL, wetR |-> wetR,
     filteredL |-> w.L, filteredR |-> w.R,
     earlyBlock |-> (e.r.earlyInputBufferPos + 1 >= EARLY_FFT_SIZE),
     lateBlock |-> (e.r.lateInputBufferPos + 1 >= LATE_FFT_SIZE),
     \* the left output buffers as lines 549-550 find them
     earlyOut |-> e2.r.earlyOutputBuffer, lateOut |-> e2.g.g_lateOutputBuffer]

\* lines 549-574 on the state e2 the two tiers leave
ProcessFiltered(e, inL, inR, pd, e2, wetL, wetR, f) ==
    ProcessOutput(e, inL, inR, pd, e2, wetL, wetR, f,
                  StereoWidth(e.r.stereoWidth, f.filtL, f.filtR))

ProcessWet(e, inL, inR, pd, e2, wetL, wetR) ==
    ProcessFiltered(e, inL, inR, pd, e2, wetL, wetR, ProcessFilters(e2.r, wetL, wetR))

ProcessTiers(e, inL, inR, pd, e2) ==
    ProcessWet(e, inL, inR, pd, e2,
               e2.r.earlyOutputBuffer[0] + e2.g.g_lateOutputBuffer[0],
               e2.r.earlyOutputBufferRight[0] + e2.g.g_lateOutputBufferRight[0])

\* lines 404-547 and on: predelay, both tiers, then the output stage
ProcessDelayed(e, inL, inR, pd) ==
    ProcessTiers(e, inL, inR, pd,
                 LateTier(EarlyTier(StoreInput(pd.e, pd.delayedL, pd.delayedR))))

\* void Process(float inL, float inR, float* outL, float* outR): the state
\* after, the output pair, and the intermediate values of the call.
Process(e, inL, inR) ==
    IF e.r.irBuffer = NULL
    THEN [e |-> e, outL |-> PassThrough(inL, inR).outL,
          outR |-> PassThrough(inL, inR).outR, hasIR |-> FALSE,
          delayedL |-> 0, delayedR |-> 0, wetL |-> 0, wetR |-> 0,
          filteredL |-> 0, filteredR |-> 0,
          earlyBlock |-> FALSE, lateBlock |-> FALSE,
          earlyOut |-> e.r.earlyOutputBuffer, lateOut |-> e.g.g_lateOutputBuffer]
    ELSE ProcessDelayed(e, inL, inR, PredelayStep(e, inL, inR))

(***************************************************************************)
(* The root build, src/EchoBridgeWithUSB.cpp: class ConvolutionReverb.     *)
(* FFT_SIZE 1024 is scaled to 4, MAX_IR_LENGTH 144000 to 7, the sample     *)
(* rate to 6 (so the 500 ms predelay line holds 3 samples).  An IR sample  *)
(* of 1.0 is the integer 20, irLengthMultiplier is counted in twentieths,  *)
(* stereoWidth in halves.                                                   *)
(***************************************************************************)
FFT_SIZE == 4

maxIrLength == 7

\* The layout ProcessFFTBlock describes for a spectrum X of a real block:
\* DC, Nyquist, then the real and imaginary part of each bin below Nyquist
Pack(X) ==
    [i \in 0..(FFT_SIZE - 1) |->
        IF i = 0 THEN X.real[0]
        ELSE IF i = 1 THEN X.real[FFT_SIZE \div 2]
        ELSE IF i % 2 = 0 THEN X.real[i \div 2] ELSE X.imag[i \div 2]]

\* fft.Direct(input, output) of the root build: the packed spectrum of a
\* real block
PackedDirect(input) == Pack(Complex(FFT_SIZE, input, Zeros(FFT_SIZE)))

\* fft.Inverse(input, output) of the root build: the real block of a
\* packed spectrum
PackedInverse(packed) ==
    LET half == FFT_SIZE \div 2
        re(k) == IF k = 0 THEN packed[0]
                 ELSE IF k = half THEN packed[1]
                 ELSE IF k < half THEN packed[2 * k]
                 ELSE packed[2 * (FFT_SIZE - k)]
        im(k) == IF k = 0 \/ k = half THEN 0
                 ELSE IF k < half THEN packed[2 * k + 1]
                 ELSE -packed[2 * (FFT_SIZE - k) + 1]
    IN Inverse(FFT_SIZE, [k \in 0..(FFT_SIZE - 1) |-> re(k)],
                         [k \in 0..(FFT_SIZE - 1) |-> im(k)]).real

\* ConvolutionReverb() followed by Init(sampleRate, MAX_IR_LENGTH);
\* updateCalls counts the runs of UpdateIRFrequencyDomain
ConvReverbInit ==
    [irBuffer |-> Zeros(maxIrLength), irBufferRight |-> Zeros(maxIrLength),
     irLength |-> 0,
     irFreqReal |-> Zeros(FFT_SIZE), irFreqImag |-> Zeros(FFT_SIZE),
     irFreqRealRight |-> Zeros(FFT_SIZE), irFreqImagRight |-> Zeros(FFT_SIZE),
     inputBufferL |-> Zeros(FFT_SIZE), inputBufferR |-> Zeros(FFT_SIZE),
     inputBufferPos |-> 0,
     outputBufferL |-> Zeros(2 * FFT_SIZE), outputBufferR |-> Zeros(2 * FFT_SIZE),
     outputBufferPos |-> 0,
     irLengthMultiplier |-> 20, predelayMs |-> 0, predelaySamples |-> 0,
     sampleRate |-> 6, lowCutFreq |-> 20, highCutFreq |-> 20000,
     freezeActive |-> FALSE, stereoWidth |-> 2, trueStereoIR |-> FALSE,
     predelayBufferL |-> Zeros(3), predelayBufferR |-> Zeros(3),
     predelayBufferSize |-> 3, predelayBufferPos |-> 0,
     lowCutFilterL |-> SvfSetFreq(SvfInit, 20),
     highCutFilterL |-> SvfSetFreq(SvfInit, 20000),
     lowCutFilterR |-> SvfSetFreq(SvfInit, 20),
     highCutFilterR |-> SvfSetFreq(SvfInit, 20000),
     castWraps |-> FALSE, updateCalls |-> 0]

\* memcpy(dst, src, count * sizeof(float))
Memcpy(dst, src, count) ==
    [i \in DOMAIN dst |-> IF i < count THEN src[i] ELSE dst[i]]

\* irFreqReal[i] = result[i * 2] (or [i * 2 + 1]) for i < FFT_SIZE / 2
Unpack(result, offset) ==
    [i \in 0..(FFT_SIZE - 1) |->
        IF i < FFT_SIZE \div 2 THEN result[2 * i + offset] ELSE 0]

\* lines 244-245: static_cast<size_t>(irLength * irLengthMultiplier), at
\* most FFT_SIZE
ConvEffectiveIrLength(c) ==
    Min(SizeT(c.irLength * c.irLengthMultiplier, 20, c.castWraps), FFT_SIZE)

\* lines 253-268: the two packed results split into the real and imaginary
\* arrays of each channel
ConvStoreSpectra(c, resultL, resultR) ==
    [c EXCEPT !.irFreqReal = Unpack(resultL, 0),
              !.irFreqImag = Unpack(resultL, 1),
              !.irFreqRealRight = Unpack(resultR, 0),
              !.irFreqImagRight = Unpack(resultR, 1),
              !.updateCalls = @ + 1]

\* bool ConvolutionReverb::UpdateIRFrequencyDomain()
ConvUpdateIRFrequencyDomain(c) ==
    LET effectiveIrLength == ConvEffectiveIrLength(c)
    IN ConvStoreSpectra(c,
           PackedDirect(Memcpy(Zeros(FFT_SIZE), c.irBuffer, effectiveIrLength)),
           PackedDirect(Memcpy(Zeros(FFT_SIZE), c.irBufferRight, effectiveIrLength)))

\* bool ConvolutionReverb::LoadIR(const float* newIR, size_t newIrLength):
\* no check of newIrLength, the result is that of the update (true)
ConvLoadIR(c, newIR, newIrLength) ==
    [c |-> ConvUpdateIRFrequencyDomain(
               [c EXCEPT !.irLength = newIrLength,
                         !.irBuffer = Memcpy(@, newIR, newIrLength),
                         !.irBufferRight = Memcpy(@, newIR, newIrLength),
                         !.trueStereoIR = FALSE]),
     ret |-> TRUE]

\* bool ConvolutionReverb::LoadStereoIR(newIrLeft, newIrRight, newIrLength)
ConvLoadStereoIR(c, newIrLeft, newIrRight, newIrLength) ==
    [c |-> ConvUpdateIRFrequencyDomain(
               [c EXCEPT !.irLength = newIrLength,
                         !.irBuffer = Memcpy(@, newIrLeft, newIrLength),
                         !.irBufferRight = Memcpy(@, newIrRight, newIrLength),
                         !.trueStereoIR = TRUE]),
     ret |-> TRUE]

\* if (x < lo) x = lo; if (x > hi) x = hi;
Clamp(x, lo, hi) == IF x < lo THEN lo ELSE IF x > hi THEN hi ELSE x

\* void ConvolutionReverb::SetIRLength(float multiplier)
ConvSetIRLength(c, multiplier) ==
    LET m == Clamp(multiplier, 0, 20)
    IN IF m # c.irLengthMultiplier
       THEN ConvUpdateIRFrequencyDomain([c EXCEPT !.irLengthMultiplier = m])
       ELSE c

\* void ConvolutionReverb::SetPredelay(float ms)
ConvSetPredelay(c, ms) ==
    LET predelaySamples == SizeT(ms * c.sampleRate, 1000, c.castWraps)
    IN [c EXCEPT !.predelayMs = ms,
                 !.predelaySamples = IF predelaySamples >= c.predelayBufferSize
                                     THEN c.predelayBufferSize - 1
                                     ELSE predelaySamples]

\* void ConvolutionReverb::SetLowCut(float freq)
ConvSetLowCut(c, freq) ==
    LET f == Clamp(freq, 20, 2000)
    IN [c EXCEPT !.lowCutFreq = f,
                 !.lowCutFilterL = SvfSetFreq(@, f),
                 !.lowCutFilterR = SvfSetFreq(@, f)]

\* void ConvolutionReverb::SetHighCut(float freq)
ConvSetHighCut(c, freq) ==
    LET f == Clamp(freq, 1000, 20000)
    IN [c EXCEPT !.highCutFreq = f,
                 !.highCutFilterL = SvfSetFreq(@, f),
                 !.highCutFilterR = SvfSetFreq(@, f)]

\* void ConvolutionReverb::SetFreeze(bool state)
ConvSetFreeze(c, state) == [c EXCEPT !.freezeActive = state]

\* void ConvolutionReverb::SetStereoWidth(float width).  For a mono IR the
\* right IR is rebuilt from the left one with a factor drawn from rand();
\* r stands for rand() / RAND_MAX and is 0 or 1, which makes the factor
\* 1 -/+ 0.05 * (stereoWidth - 2).  The index offset i * 0.01 * (width - 1)
\* is 0 for every i of the scaled IR.
ConvSetStereoWidth(c, width, r) ==
    LET w == Clamp(width, 0, 4)
        c1 == [c EXCEPT !.stereoWidth = w]
        factor == 20 + ((w - 2) * (2 * r - 1))
    IN IF ~c.trueStereoIR /\ c.irLength > 0
       THEN ConvUpdateIRFrequencyDomain(
                [c1 EXCEPT !.irBufferRight =
                    IF w # 2
                    THEN [i \in DOMAIN c.irBufferRight |->
                            IF i < c.irLength
                            THEN (c.irBuffer[i % c.irLength] * factor) \div 20
                            ELSE c.irBufferRight[i]]
                    ELSE Memcpy(@, c.irBuffer, c.irLength)])
       ELSE c1

\* (a + bi)(c + di), real and imaginary part, of a block spectrum and an
\* IR spectrum (the IR's 1.0 being 20)
MulReal(a, b, c, d) == ((a * c) - (b * d)) \div 20

MulImag(a, b, c, d) == ((a * d) + (b * c)) \div 20

\* The product spectrum of ProcessFFTBlock for one channel
FftBufferOf(fftResult, irReal, irImag) ==
    [i \in 0..(FFT_SIZE - 1) |->
        IF i < 2 THEN (fftResult[i] * irReal[i]) \div 20
        ELSE IF i % 2 = 0
             THEN MulReal(fftResult[i], fftResult[i + 1],
                          irReal[i \div 2], irImag[i \div 2])
             ELSE MulImag(fftResult[i - 1], fftResult[i],
                          irReal[i \div 2], irImag[i \div 2])]

\* outputBuffer[(outputBufferPos + i) % (FFT_SIZE * 2)] += tempOutput[i] * 0.5f
ConvOverlapAdd(outputBuffer, outputBufferPos, tempOutput) ==
    [j \in 0..(2 * FFT_SIZE - 1) |->
        LET i == (j + 2 * FFT_SIZE - outputBufferPos) % (2 * FFT_SIZE)
        IN IF i < FFT_SIZE THEN outputBuffer[j] + (tempOutput[i] \div 2)
           ELSE outputBuffer[j]]

\* lines 449-493 for one channel: Direct, product with the IR spectrum, Inverse
ConvolveChannel(inputBuffer, irReal, irImag) ==
    PackedInverse(FftBufferOf(PackedDirect(inputBuffer), irReal, irImag))

\* void ConvolutionReverb::ProcessFFTBlock()
ProcessFFTBlock(c) ==
    [c EXCEPT !.outputBufferL =
                  ConvOverlapAdd(@, c.outputBufferPos,
                      ConvolveChannel(c.inputBufferL, c.irFreqReal, c.irFreqImag)),
              !.outputBufferR =
                  ConvOverlapAdd(@, c.outputBufferPos,
                      ConvolveChannel(c.inputBufferR, c.irFreqRealRight,
                                      c.irFreqImagRight))]

\* mid/side with the side scaled by stereoWidth
MidSide(width, l, r) ==
    LET mid  == (l + r) \div 2
        side == (((l - r) \div 2) * width) \div 2
    IN [L |-> mid + side, R |-> mid - side]

\* lines 355-396: the input into the predelay line, the delayed pair read
\* after the write position has advanced, the pair written to the input
\* buffers and the pair read from the output buffers
ConvInput(c, inL, inR) ==
    LET bufL == [c.predelayBufferL EXCEPT ![c.predelayBufferPos] = inL]
        bufR == [c.predelayBufferR EXCEPT ![c.predelayBufferPos] = inR]
        predelayBufferPos == (c.predelayBufferPos + 1) % c.predelayBufferSize
        readPos == (predelayBufferPos + c.predelayBufferSize - c.predelaySamples)
                   % c.predelayBufferSize
        pre == IF ~c.trueStereoIR /\ c.stereoWidth # 2
               THEN MidSide(c.stereoWidth, bufL[readPos], bufR[readPos])
               ELSE [L |-> bufL[readPos], R |-> bufR[readPos]]
    IN [bufL |-> bufL, bufR |-> bufR, predelayBufferPos |-> predelayBufferPos,
        delayedL |-> bufL[readPos], delayedR |-> bufR[readPos],
        writtenL |-> IF ~c.freezeActive THEN pre.L ELSE 0,
        writtenR |-> IF ~c.freezeActive THEN pre.R ELSE 0,
        outSampleL |-> c.outputBufferL[c.outputBufferPos],
        outSampleR |-> c.outputBufferR[c.outputBufferPos]]

\* the buffers and positions after lines 355-400
ConvStored(c, a) ==
    [c EXCEPT !.predelayBufferL = a.bufL, !.predelayBufferR = a.bufR,
              !.predelayBufferPos = a.predelayBufferPos,
              !.inputBufferL[c.inputBufferPos] = a.writtenL,
              !.inputBufferR[c.inputBufferPos] = a.writtenR,
              !.outputBufferL[c.outputBufferPos] = 0,
              !.outputBufferR[c.outputBufferPos] = 0,
              !.inputBufferPos = (@ + 1) % FFT_SIZE,
              !.outputBufferPos = (@ + 1) % (2 * FFT_SIZE)]

\* lines 403-405: if (inputBufferPos == 0) ProcessFFTBlock();
ConvBlock(c1) == IF c1.inputBufferPos = 0 THEN ProcessFFTBlock(c1) ELSE c1

\* lines 414-426: stereo width on the output pair
ConvOutputWidth(width, outSampleL, outSampleR) ==
    IF width # 2 THEN MidSide(width, outSampleL, outSampleR)
    ELSE [L |-> outSampleL, R |-> outSampleR]

\* lines 408-430: filters and output width
ConvOutput(c, a, c2) ==
    LET lowL == SvfHigh(c2.lowCutFilterL, a.outSampleL)
        filtL == SvfLow(c2.highCutFilterL, lowL)
        lowR == SvfHigh(c2.lowCutFilterR, a.outSampleR)
        filtR == SvfLow(c2.highCutFilterR, lowR)
        out == ConvOutputWidth(c.stereoWidth, filtL, filtR)
    IN [c |-> [c2 EXCEPT !.lowCutFilterL = SvfProcess(@, a.outSampleL),
                         !.highCutFilterL = SvfProcess(@, lowL),
                         !.lowCutFilterR = SvfProcess(@, a.outSampleR),
                         !.highCutFilterR = SvfProcess(@, lowR)],
        outL |-> out.L, outR |-> out.R,
        delayedL |-> a.delayedL, delayedR |-> a.delayedR,
        writtenL |-> a.writtenL, writtenR |-> a.writtenR,
        wetL |-> a.outSampleL, wetR |-> a.outSampleR]

ConvProcessInput(c, a) == ConvOutput(c, a, ConvBlock(ConvStored(c, a)))

\* void ConvolutionReverb::Process(float inL, float inR, float* outL, float* outR):
\* the state after, the output pair, and the pair written to the input buffers
ConvProcess(c, inL, inR) == ConvProcessInput(c, ConvInput(c, inL, inR))

(***************************************************************************)
(* Bounds of the exploration                                               *)
(***************************************************************************)
MaxTicks == 3

MaxPulses == 1

\* Audio samples offered to the callback: 0.0 and 1.0
InSamples == {0, 32}

\* Knob positions 0.0, 0.5, 1.0 (in halves)
KnobValues == {0, 1, 2}

\* Impulse responses offered by the loader: every 0/1/2-valued buffer would
\* be too many, so a buffer is one of these patterns cut to its length.
IrPatternA == << 1, 2, 1, 0, 2, 1, 1, 2 >>

IrPatternB == << 2, 0, 1, 1, 0, 0, 2, 1 >>

\* C arrays start at 0
Buf(pattern, length) == [i \in 0..(length - 1) |-> pattern[i + 1]]

\* Lengths offered to LoadIR / LoadStereoIR: empty, inside the early block,
\* early + late exactly, longer than both tiers, above MAX_IR_LENGTH
IrLengths == {0, EARLY_FFT_SIZE + LATE_FFT_SIZE, MAX_IR_LENGTH + 1}

(***************************************************************************)
(* The src/src build: audio callback and main-loop handlers                *)
(***************************************************************************)
Engine == [r |-> reverb, g |-> sdram]

\* The IR and every spectrum derived from it
IRState(e) ==
    [irBuffer |-> e.r.irBuffer, irBufferRight |-> e.r.irBufferRight,
     irLength |-> e.r.irLength, trueStereoIR |-> e.r.trueStereoIR,
     earlyIrFreqReal |-> e.r.earlyIrFreqReal,
     earlyIrFreqImag |-> e.r.earlyIrFreqImag,
     earlyIrFreqRealRight |-> e.r.earlyIrFreqRealRight,
     earlyIrFreqImagRight |-> e.r.earlyIrFreqImagRight,
     g_lateIrFreqReal |-> e.g.g_lateIrFreqReal,
     g_lateIrFreqImag |-> e.g.g_lateIrFreqImag,
     g_lateIrFreqRealRight |-> e.g.g_lateIrFreqRealRight,
     g_lateIrFreqImagRight |-> e.g.g_lateIrFreqImagRight]

\* Every tier's stored spectrum, both channels
Spectra(e) ==
    [early |-> << e.r.earlyIrFreqReal, e.r.earlyIrFreqImag,
                  e.r.earlyIrFreqRealRight, e.r.earlyIrFreqImagRight >>,
     late |-> << e.g.g_lateIrFreqReal, e.g.g_lateIrFreqImag,
                 e.g.g_lateIrFreqRealRight, e.g.g_lateIrFreqImagRight >>]

TickNone ==
    [mode |-> "none", seen |-> NULL, inL |-> 0, inR |-> 0, procL |-> 0, procR |-> 0,
     outL |-> 0, outR |-> 0, hasIR |-> FALSE, loadedOk |-> FALSE,
     earlyInL |-> 0, earlyInR |-> 0, lateInL |-> 0, lateInR |-> 0,
     delayedL |-> 0, delayedR |-> 0, wetL |-> 0, wetR |-> 0,
     filteredL |-> 0, filteredR |-> 0, dryWet |-> 0, predelayInSamples |-> 0,
     earlyBlock |-> FALSE, lateBlock |-> FALSE]

\* The state Process keeps between samples: predelay ring and its write
\* position, both tiers' input accumulators and cursors, the output
\* accumulators, the four filters
ProcState(e) ==
    [g_predelayBuffer |-> e.g.g_predelayBuffer,
     g_predelayBufferRight |-> e.g.g_predelayBufferRight,
     predelayBufferPos |-> e.r.predelayBufferPos,
     earlyInputBuffer |-> e.r.earlyInputBuffer,
     earlyInputBufferRight |-> e.r.earlyInputBufferRight,
     earlyInputBufferPos |-> e.r.earlyInputBufferPos,
     g_lateInputBuffer |-> e.g.g_lateInputBuffer,
     g_lateInputBufferRight |-> e.g.g_lateInputBufferRight,
     lateInputBufferPos |-> e.r.lateInputBufferPos,
     earlyOutputBuffer |-> e.r.earlyOutputBuffer,
     earlyOutputBufferRight |-> e.r.earlyOutputBufferRight,
     g_lateOutputBuffer |-> e.g.g_lateOutputBuffer,
     g_lateOutputBufferRight |-> e.g.g_lateOutputBufferRight,
     lowCutFilterL |-> e.r.lowCutFilterL, highCutFilterL |-> e.r.highCutFilterL,
     lowCutFilterR |-> e.r.lowCutFilterR, highCutFilterR |-> e.r.highCutFilterR]

\* The spectra the left and the right channel are convolved with, early
\* tier then late tier
LeftSpectra(e) ==
    << e.r.earlyIrFreqReal, e.r.earlyIrFreqImag,
       e.g.g_lateIrFreqReal, e.g.g_lateIrFreqImag >>

RightSpectra(e) ==
    << e.r.earlyIrFreqRealRight, e.r.earlyIrFreqImagRight,
       e.g.g_lateIrFreqRealRight, e.g.g_lateIrFreqImagRight >>

\* The spectra of the first effective samples of one impulse response
SpectraOfIR(buffer, effective) ==
    << Direct(EARLY_FFT_SIZE,
              Padded(buffer, 0, Min(effective, EARLY_FFT_SIZE), EARLY_FFT_SIZE)),
       Zeros(EARLY_FFT_SIZE),
       IF effective > EARLY_FFT_SIZE
       THEN Direct(LATE_FFT_SIZE,
                   Padded(buffer, EARLY_FFT_SIZE,
                          Min(effective - EARLY_FFT_SIZE, LATE_FFT_SIZE),
                          LATE_FFT_SIZE))
       ELSE Zeros(LATE_FFT_SIZE),
       Zeros(LATE_FFT_SIZE) >>

\* What a load call that took e to e2 left behind: the mode, whether both
\* channels have the same spectra, whether each channel's spectra are those
\* of the IR passed for it, and whether a stereo pair was in use before
LoadPost(e, e2, ret, bufferL, bufferR) ==
    [build |-> "src/src",
     trueStereoIR |-> e2.r.trueStereoIR,
     rightIsLeft |-> (RightSpectra(e2) = LeftSpectra(e2)),
     own |-> IF ret
             THEN /\ LeftSpectra(e2) = SpectraOfIR(bufferL, EffectiveIrLength(e2.r))
                  /\ RightSpectra(e2) = SpectraOfIR(bufferR, EffectiveIrLength(e2.r))
             ELSE FALSE,
     wasStereo |-> (e.r.trueStereoIR /\ RightSpectra(e) # LeftSpectra(e))]

LoadNone ==
    [call |-> "none", length |-> 0, capacity |-> 0, ret |-> FALSE, unchanged |-> TRUE,
     kept |-> TRUE, ticks |-> 0, post |-> NULL]

Abs(x) == IF x < 0 THEN -x ELSE x

Pulses == Cardinality({i \in 1..Len(hist) : hist[i].inL # 0 \/ hist[i].inR # 0})

\* What a tick that called Process records
TickOf(mode, inL, inR, procL, procR, e, p) ==
    [mode |-> mode, seen |-> Spectra(e), inL |-> inL, inR |-> inR, procL |-> procL, procR |-> procR,
     outL |-> p.outL, outR |-> p.outR, hasIR |-> p.hasIR, loadedOk |-> loadedOk,
     \* the slots of the tiers' input buffers this tick wrote, read back
     earlyInL |-> p.e.r.earlyInputBuffer[e.r.earlyInputBufferPos],
     earlyInR |-> p.e.r.earlyInputBufferRight[e.r.earlyInputBufferPos],
     lateInL |-> p.e.g.g_lateInputBuffer[e.r.lateInputBufferPos],
     lateInR |-> p.e.g.g_lateInputBufferRight[e.r.lateInputBufferPos],
     delayedL |-> p.delayedL, delayedR |-> p.delayedR,
     wetL |-> p.wetL, wetR |-> p.wetR,
     filteredL |-> p.filteredL, filteredR |-> p.filteredR,
     dryWet |-> e.r.dryWet, predelayInSamples |-> e.r.predelayInSamples,
     earlyBlock |-> p.earlyBlock, lateBlock |-> p.lateBlock]

\* void AudioCallback(in, out, size), one sample of the block
AudioCallback(inL, inR) ==
    /\ n' = n + 1
    /\ isStereoInput' = (isStereoInput \/ Abs(inL - inR) > 0)
    /\ IF bypass
       THEN /\ tick' = [TickNone EXCEPT !.mode = "bypass", !.inL = inL, !.inR = inR,
                                        !.outL = inL, !.outR = inR]
            /\ UNCHANGED << reverb, sdram, hist >>
       ELSE LET procL == IF freeze THEN 0 ELSE inL
                procR == IF freeze THEN 0 ELSE inR
            IN \E p \in {Process(Engine, procL, procR)} :
               /\ reverb' = p.e.r
               /\ sdram' = p.e.g
               /\ tick' = TickOf(IF freeze THEN "freeze" ELSE "normal",
                                 inL, inR, procL, procR, Engine, p)
               /\ hist' = IF p.hasIR
                          THEN Append(hist, [inL |-> procL, inR |-> procR,
                                             wetL |-> p.wetL, wetR |-> p.wetR,
                                             delayedL |-> p.delayedL,
                                             delayedR |-> p.delayedR,
                                             predelayInSamples |->
                                                 reverb.predelayInSamples,
                                             freeze |-> freeze,
                                             build |-> "src/src",
                                             earlyBlock |-> p.earlyBlock,
                                             lateBlock |-> p.lateBlock,
                                             earlyOut |-> p.earlyOut,
                                             lateOut |-> p.lateOut])
                          ELSE hist
    /\ UNCHANGED << rootVars, bypass, freeze, ctl, load, loadedOk, fft, pub >>

\* A main-loop call that replaces the engine state by e2
Control(e2, ld) ==
    /\ ctl = "idle"
    /\ reverb' = e2.r
    /\ sdram' = e2.g
    /\ load' = IF ld.call = "none" THEN load ELSE ld
    /\ loadedOk' = (loadedOk \/ ld.ret)
    /\ UNCHANGED << rootVars, bypass, freeze, isStereoInput, ctl, tick, hist, fft, pub, n >>

\* void HandleFootswitch1(bool pressed): freeze
HandleFootswitch1 ==
    /\ ctl = "idle"
    /\ freeze' = ~freeze
    /\ UNCHANGED << rootVars, reverb, sdram, bypass, isStereoInput, ctl, tick, hist, load, n, loadedOk, fft, pub >>

\* void HandleFootswitch2(bool pressed): bypass
HandleFootswitch2 ==
    /\ ctl = "idle"
    /\ bypass' = ~bypass
    /\ UNCHANGED << rootVars, reverb, sdram, freeze, isStereoInput, ctl, tick, hist, load, n, loadedOk, fft, pub >>

\* void HandleFootswitch2LongPress(): reset parameters
HandleFootswitch2LongPress ==
    Control(SetStereoWidth(SetHighCut(SetLowCut(SetIRLengthFactor(
                SetPredelay(SetDryWet(Engine, 1), 0), 2), 100), 10000), 2),
            LoadNone)

\* void HandleKnob1(float value)
HandleKnob1(value) == Control(SetDryWet(Engine, value), LoadNone)

\* void HandleKnob2(float value): predelayMs = value * 500.0f
HandleKnob2(value) == Control(SetPredelay(Engine, value * 250), LoadNone)

\* void HandleKnob3(float value)
HandleKnob3(value) == Control(SetIRLengthFactor(Engine, value), LoadNone)

\* void HandleKnob4(float value): low cut below 0.5, high cut from 0.5
HandleKnob4(value) ==
    IF value < 1
    THEN Control(SetHighCut(SetLowCut(Engine, 20 + value * 980), 20000), LoadNone)
    ELSE Control(SetHighCut(SetLowCut(Engine, 20),
                            20000 - (value - 1) * 19000), LoadNone)

\* void HandleKnob5(float value): stereoWidth = value * 2.0f
HandleKnob5(value) == Control(SetStereoWidth(Engine, value * 2), LoadNone)

\* bool LoadIRCallback(float* bufferL, float* bufferR, size_t length),
\* bufferR = NULL for a mono file
LoadIRCallback(bufferL, bufferR, length) ==
    \E res \in {IF bufferR # NULL
                 THEN LoadStereoIR(Engine, bufferL, bufferR, length)
                 ELSE LoadIR(Engine, bufferL, length)} :
       Control(res.e,
               [call |-> IF bufferR # NULL THEN "LoadStereoIR" ELSE "LoadIR",
                length |-> length, capacity |-> MAX_IR_LENGTH, ret |-> res.ret,
                unchanged |-> (IRState(res.e) = IRState(Engine)),
                \* the processing state is the same after the call; the
                \* number of samples processed before it
                kept |-> (ProcState(res.e) = ProcState(Engine)),
                ticks |-> Len(hist),
                post |-> LoadPost(Engine, res.e, res.ret, bufferL,
                                  IF bufferR # NULL THEN bufferR ELSE bufferL)])

vars == << convReverb, root, reverb, sdram, bypass, freeze, isStereoInput, ctl, tick, hist, load, loadedOk, fft, pub, n >>

(***************************************************************************)
(* The root build: globals, USB loading and the audio callback, which      *)
(* also reads the controls and sets the engine's parameters                *)
(***************************************************************************)
IR_FULL_BRIDGE == 0

IR_SHORT_ECHO == 1

IR_LONG_DECAY == 2

\* C array with the elements of a sequence
Arr(seq) == [i \in 0..(Len(seq) - 1) |-> seq[i + 1]]

\* GenerateTestIRs(): three decaying stereo pairs, lengths scaled from
\* 48000, 24000 and 72000 samples
GenerateTestIRs ==
    [irMode |-> IR_FULL_BRIDGE, usbMounted |-> FALSE,
     isStereoIR |-> [m \in 0..2 |-> TRUE],
     irLength |-> (0 :> 5 @@ 1 :> 4 @@ 2 :> 6),
     echoBridgeIR |-> (0 :> Arr(<< 20, 14, 12, 10, 8, 6, 4 >>)
                    @@ 1 :> Arr(<< 20, 16, 8, 4, 2, 0, 0 >>)
                    @@ 2 :> Arr(<< 18, 12, 12, 10, 10, 8, 8 >>)),
     echoBridgeIR_R |-> (0 :> Arr(<< 20, 14, 13, 11, 8, 6, 4 >>)
                      @@ 1 :> Arr(<< 20, 16, 9, 4, 2, 0, 0 >>)
                      @@ 2 :> Arr(<< 18, 12, 13, 10, 11, 8, 8 >>))]

\* The IR and the spectra of the root engine
ConvIRState(c) ==
    [irBuffer |-> c.irBuffer, irBufferRight |-> c.irBufferRight,
     irLength |-> c.irLength, trueStereoIR |-> c.trueStereoIR,
     irFreqReal |-> c.irFreqReal, irFreqImag |-> c.irFreqImag,
     irFreqRealRight |-> c.irFreqRealRight, irFreqImagRight |-> c.irFreqImagRight]

\* The spectrum of the first effective samples of one impulse response
ConvSpectrumOfIR(ir, effective) ==
    << Unpack(PackedDirect(Memcpy(Zeros(FFT_SIZE), ir, effective)), 0),
       Unpack(PackedDirect(Memcpy(Zeros(FFT_SIZE), ir, effective)), 1) >>

\* What a load call that took c to c2 left behind, as LoadPost
ConvLoadPost(c, c2, irL, irR) ==
    [build |-> "root",
     trueStereoIR |-> c2.trueStereoIR,
     rightIsLeft |-> (<< c2.irFreqRealRight, c2.irFreqImagRight >>
                        = << c2.irFreqReal, c2.irFreqImag >>),
     own |-> /\ << c2.irFreqReal, c2.irFreqImag >>
                  = ConvSpectrumOfIR(irL, ConvEffectiveIrLength(c2))
             /\ << c2.irFreqRealRight, c2.irFreqImagRight >>
                  = ConvSpectrumOfIR(irR, ConvEffectiveIrLength(c2)),
     wasStereo |-> (c.trueStereoIR /\ << c.irFreqRealRight, c.irFreqImagRight >>
                                       # << c.irFreqReal, c.irFreqImag >>)]

\* The callback's state st = [c |-> engine, g |-> globals, load |-> last
\* load call] after a load call that gave res
ConvLoaded(st, stereo, length, res, post) ==
    [st EXCEPT !.c = res.c,
               !.load = [call |-> IF stereo THEN "LoadStereoIR" ELSE "LoadIR",
                         length |-> length, capacity |-> maxIrLength,
                         ret |-> res.ret,
                         unchanged |-> (ConvIRState(res.c) = ConvIRState(st.c)),
                         post |-> post]]

\* The call made, then what it left behind
ConvLoadResult(st, stereo, irL, irR, length, res) ==
    ConvLoaded(st, stereo, length, res,
               ConvLoadPost(st.c, res.c, irL, IF stereo THEN irR ELSE irL))

\* A call of convReverb.LoadStereoIR / convReverb.LoadIR
ConvLoad(st, stereo, irL, irR, length) ==
    ConvLoadResult(st, stereo, irL, irR, length,
                   IF stereo THEN ConvLoadStereoIR(st.c, irL, irR, length)
                   ELSE ConvLoadIR(st.c, irL, length))

\* if (isStereoIR[irMode]) LoadStereoIR(...) else LoadIR(...) on the
\* arrays of the current mode
LoadCurrentMode(st) ==
    LET m == st.g.irMode
    IN ConvLoad(st, st.g.isStereoIR[m], st.g.echoBridgeIR[m],
                st.g.echoBridgeIR_R[m], st.g.irLength[m])

\* bool IRLoader::LoadWavToIR(filename, buffer, pLength, maxLength) on the
\* file found under that name (NULL: no such file)
LoadWavToIR(file, buffer, maxLength) ==
    IF file = NULL THEN [ok |-> FALSE, buffer |-> buffer, length |-> maxLength]
    ELSE LET numSamples == Min(file.numSamples, maxLength)
         IN [ok |-> TRUE, buffer |-> Memcpy(buffer, file.buffer, numSamples),
             length |-> numSamples]

\* the mono branch of LoadIRFromUSB: mono is what LoadWavToIR gave
LoadMono(st, irMode, mono) ==
    IF mono.ok
    THEN ConvLoad([st EXCEPT !.g.echoBridgeIR[irMode] = mono.buffer,
                             !.g.irLength[irMode] = mono.length,
                             !.g.isStereoIR[irMode] = FALSE],
                  FALSE, mono.buffer, NULL, mono.length)
    ELSE st

LoadMonoFile(st, irMode, files) ==
    LoadMono(st, irMode,
             LoadWavToIR(files.mono, st.g.echoBridgeIR[irMode], maxIrLength))

\* the stereo branch: left and right are what LoadWavToIR gave for the
\* _L and _R files (the _R file is read only if the _L file loaded)
LoadPair(st, irMode, files, left, right) ==
    IF left.ok
    THEN IF right.ok
         THEN ConvLoad([st EXCEPT !.g.echoBridgeIR[irMode] = left.buffer,
                                  !.g.echoBridgeIR_R[irMode] = right.buffer,
                                  !.g.irLength[irMode] = left.length,
                                  !.g.isStereoIR[irMode] = TRUE],
                       TRUE, left.buffer, right.buffer, left.length)
         ELSE LoadMonoFile([st EXCEPT !.g.echoBridgeIR[irMode] = left.buffer],
                           irMode, files)
    ELSE LoadMonoFile(st, irMode, files)

\* bool LoadIRFromUSB(int irMode): stereo pair first, then the mono file;
\* the parameter hides the global irMode, so the loaded IR always goes
\* into the engine
LoadIRFromUSB(st, irMode, stick) ==
    LoadPair(st, irMode, stick[irMode],
             LoadWavToIR(stick[irMode].L, st.g.echoBridgeIR[irMode], maxIrLength),
             LoadWavToIR(stick[irMode].R, st.g.echoBridgeIR_R[irMode], maxIrLength))

\* FsCallbacks::HandleDoublePress(FOOTSWITCH_1): next IR mode
FsHandleDoublePress(st) ==
    LoadCurrentMode([st EXCEPT !.g.irMode = (@ + 1) % 3])

\* bool DetectStereoInput(bufferL, bufferR, size) on the samples of the block
DetectStereoInput(inL, inR) ==
    LET sumDiff == Abs(inL - inR)
        sumMag == (Abs(inL) + Abs(inR)) \div 2
    IN sumMag > 0 /\ 10 * sumDiff > sumMag

\* What the controls and the USB port show during one callback.  ev is the
\* footswitch event ProcessAllControls dispatches, usb the stick found
\* mounted (NULL: none), knobs in halves, stereoWidth the width toggle switch 3
\* selects (in halves), r stands for rand() / RAND_MAX
CtlBase ==
    [ev |-> "none", usb |-> NULL, knob1 |-> 1, knob2 |-> 0, knob3 |-> 2,
     knob4 |-> 0, knob5 |-> 2, knob6 |-> 2, switchPos |-> IR_FULL_BRIDGE,
     freeze |-> FALSE, stereoWidth |-> 2, r |-> 0]

NoFiles == [L |-> NULL, R |-> NULL, mono |-> NULL]

\* A stick whose only file, ECHOBR_LONG.WAV, has an empty data chunk
StickEmptyLong ==
    (0 :> NoFiles @@ 1 :> NoFiles
     @@ 2 :> [NoFiles EXCEPT !.mono = [buffer |-> Arr(<< >>), numSamples |-> 0]])

\* A stick with a mono ECHOBR_SHORT.WAV of five samples
StickShortMono ==
    (0 :> NoFiles @@ 2 :> NoFiles
     @@ 1 :> [NoFiles EXCEPT !.mono = [buffer |-> Arr(<< 20, 0, 10, 0, 5 >>),
                                       numSamples |-> 5]])

ConvControls ==
    { CtlBase,
      [CtlBase EXCEPT !.ev = "fs2"],
      [CtlBase EXCEPT !.ev = "fs1double"],
      [CtlBase EXCEPT !.usb = StickEmptyLong],
      [CtlBase EXCEPT !.usb = StickShortMono],
      [CtlBase EXCEPT !.knob2 = 1],
      [CtlBase EXCEPT !.knob2 = 2],
      [CtlBase EXCEPT !.knob3 = 0],
      [CtlBase EXCEPT !.switchPos = IR_SHORT_ECHO],
      [CtlBase EXCEPT !.freeze = TRUE],
      [CtlBase EXCEPT !.stereoWidth = 1, !.r = 1] }

\* lines 836-848: on a newly mounted stick, LoadIRFromUSB for the three modes
ConvUsb(st, ctrl) ==
    IF (ctrl.usb # NULL) # st.g.usbMounted
    THEN IF ctrl.usb # NULL
         THEN LoadIRFromUSB(
                  LoadIRFromUSB(
                      LoadIRFromUSB([st EXCEPT !.g.usbMounted = TRUE],
                                    IR_FULL_BRIDGE, ctrl.usb),
                      IR_SHORT_ECHO, ctrl.usb),
                  IR_LONG_DECAY, ctrl.usb)
         ELSE [st EXCEPT !.g.usbMounted = FALSE]
    ELSE st

\* Lines 830-848: hw.ProcessAllControls(), irLoader.Process(), USB mount
ConvControlsAndUsb(st, ctrl) ==
    ConvUsb(IF ctrl.ev = "fs1double" THEN FsHandleDoublePress(st) ELSE st, ctrl)

\* Lines 859-882: the IR mode of toggle switch 1
ConvSwitchMode(st, ctrl) ==
    IF ctrl.switchPos # st.g.irMode
    THEN LoadCurrentMode([st EXCEPT !.g.irMode = ctrl.switchPos])
    ELSE st

\* Lines 898-904: the engine's parameters, set on every callback
ConvSetParameters(c, ctrl) ==
    ConvSetStereoWidth(
        ConvSetFreeze(
            ConvSetHighCut(
                ConvSetLowCut(
                    ConvSetIRLength(
                        ConvSetPredelay(c, ctrl.knob2 * 250),
                        2 + ctrl.knob3 * 9),
                    20 + ctrl.knob4 * 990),
                1000 + ctrl.knob5 * 9500),
            ctrl.freeze),
        ctrl.stereoWidth, ctrl.r)

\* Lines 931-936: dry/wet mix and output level
ConvMix(ctrl, in, wet) ==
    (((((2 - ctrl.knob1) * in) \div 2) + ((ctrl.knob1 * wet) \div 2)) * ctrl.knob6) \div 2

ConvTickNone ==
    [mode |-> "none", inL |-> 0, inR |-> 0, outL |-> 0, outR |-> 0,
     writtenL |-> 0, writtenR |-> 0, delayedL |-> 0, delayedR |-> 0,
     wetL |-> 0, wetR |-> 0, predelaySamples |-> 0, freeze |-> FALSE,
     widened |-> FALSE, updateCalls |-> 0, mounted |-> FALSE, usb |-> NULL]

\* void AudioCallback(in, out, size) of the root build, one sample per block
ConvAudioCallback(ctrl, inL, inR) ==
    LET st0 == [c |-> [convReverb EXCEPT !.updateCalls = 0], g |-> root, load |-> load]
        bypassNow == IF ctrl.ev = "fs2" THEN ~bypass ELSE bypass
    IN \E st1 \in {ConvSwitchMode(ConvControlsAndUsb(st0, ctrl), ctrl)} :
       \E c2 \in {ConvSetParameters(st1.c, ctrl)} :
       \E p \in {ConvProcess(c2, inL, inR)} :
       /\ n' = n + 1
       /\ bypass' = bypassNow
       /\ freeze' = ctrl.freeze
       /\ isStereoInput' = DetectStereoInput(inL, inR)
       /\ root' = st1.g
       /\ load' = st1.load
       /\ loadedOk' = (loadedOk \/ (st1.load # load /\ st1.load.ret))
       /\ IF bypassNow
          THEN /\ convReverb' = c2
               /\ tick' = [ConvTickNone EXCEPT !.mode = "bypass", !.inL = inL, !.inR = inR,
                                               !.outL = inL, !.outR = inR,
                                               !.updateCalls = c2.updateCalls,
                                               !.mounted = (st1.g.usbMounted
                                                            /\ ~root.usbMounted),
                                               !.usb = ctrl.usb]
               /\ UNCHANGED hist
          ELSE /\ convReverb' = p.c
               /\ tick' = [mode |-> "process", inL |-> inL, inR |-> inR,
                           outL |-> ConvMix(ctrl, inL, p.outL),
                           outR |-> ConvMix(ctrl, inR, p.outR),
                           writtenL |-> p.writtenL, writtenR |-> p.writtenR,
                           delayedL |-> p.delayedL, delayedR |-> p.delayedR,
                           wetL |-> p.wetL, wetR |-> p.wetR,
                           predelaySamples |-> c2.predelaySamples,
                           freeze |-> ctrl.freeze,
                           widened |-> (~c2.trueStereoIR /\ c2.stereoWidth # 2),
                           updateCalls |-> c2.updateCalls,
                           \* this callback found the stick newly mounted
                           mounted |-> (st1.g.usbMounted /\ ~root.usbMounted),
                           usb |-> ctrl.usb]
               /\ hist' = Append(hist, [inL |-> inL, inR |-> inR,
                                        wetL |-> p.wetL, wetR |-> p.wetR,
                                        delayedL |-> p.delayedL, delayedR |-> p.delayedR,
                                        predelayInSamples |-> c2.predelaySamples,
                                        freeze |-> ctrl.freeze,
                                        build |-> "root",
                                        \* ProcessFFTBlock ran; the left output
                                        \* buffer from the read position on
                                        block |-> (p.c.inputBufferPos = 0),
                                        out |-> [k \in 0..(FFT_SIZE - 1) |->
                                                   p.c.outputBufferL[
                                                       (p.c.outputBufferPos + k)
                                                           % (2 * FFT_SIZE)]]])
       /\ UNCHANGED << reverb, sdram, ctl, fft, pub >>

\* main() of the root build up to StartAudio: GenerateTestIRs(),
\* convReverb.Init(), then the full-bridge IR loaded as a stereo pair
RootStart ==
    LoadCurrentMode([c |-> ConvReverbInit, g |-> GenerateTestIRs, load |-> LoadNone])

FftNone == [pc |-> "none", N |-> 0, x |-> NULL, X |-> NULL, y |-> NULL]

\* The pedal after main() has run Init() and StartAudio()
\* The state when StartAudio is called; castWraps is what the build makes of
\* a negative float converted to size_t
PedalCast(castWraps) ==
    /\ \E st \in {RootStart} :
          /\ convReverb = [st.c EXCEPT !.updateCalls = 0, !.castWraps = castWraps]
          /\ root = st.g
    /\ reverb = [ReverbInit EXCEPT !.castWraps = castWraps]
    /\ sdram = SdramInit
    /\ bypass = TRUE
    /\ freeze = FALSE
    /\ isStereoInput = FALSE
    /\ ctl = "idle"
    /\ tick = TickNone
    /\ hist = << >>
    /\ load = LoadNone
    /\ loadedOk = FALSE
    /\ pub = [old |-> Spectra(Engine), new |-> Spectra(Engine)]
    /\ n = 0

Pedal == PedalCast(FALSE)

Init ==
    /\ Pedal
    /\ fft = FftNone

Next ==
    \/ /\ n < MaxTicks
       /\ \E inL \in InSamples, inR \in InSamples :
             ((inL # 0 \/ inR # 0) => Pulses < MaxPulses) /\ AudioCallback(inL, inR)
    \/ HandleFootswitch1
    \/ HandleFootswitch2
    \/ \E value \in KnobValues : HandleKnob1(value)
    \/ \E length \in IrLengths :
           LoadIRCallback(Buf(IrPatternA, length), NULL, length)

Spec == Init /\ [][Next]_vars

(***************************************************************************)
(* ShyFFT used as the engine uses it: Direct on a real block, the result   *)
(* taken as the real part of a spectrum with zero imaginary part, Inverse. *)
(***************************************************************************)
FftSamples == {0, 32, -32}

\* fft.Direct(input, timeOut)
FftDirect ==
    /\ fft.pc = "input"
    /\ fft' = [fft EXCEPT !.pc = "direct", !.X = Direct(fft.N, fft.x)]
    /\ UNCHANGED << rootVars, reverb, sdram, bypass, freeze, isStereoInput, ctl, tick,
                    hist, load, loadedOk, pub, n >>

\* freqReal = timeOut, freqImag = 0; fft.Inverse(freqReal, freqImag, N)
FftInverse ==
    /\ fft.pc = "direct"
    /\ fft' = [fft EXCEPT !.pc = "inverse",
                          !.y = Inverse(fft.N, fft.X, Zeros(fft.N)).real]
    /\ UNCHANGED << rootVars, reverb, sdram, bypass, freeze, isStereoInput, ctl, tick,
                    hist, load, loadedOk, pub, n >>

InitFFT ==
    /\ Pedal
    /\ \E N \in FftSizes : \E x \in [0..(N - 1) -> FftSamples] :
          fft = [pc |-> "input", N |-> N, x |-> x, X |-> NULL, y |-> NULL]

NextFFT == FftDirect \/ FftInverse

SpecFFT == InitFFT /\ [][NextFFT]_vars

\* C10: for every supported block size N and every real block x, the
\* inverse transform of the forward transform of x gives x back.
C10_RoundTrip == (fft.pc = "inverse") => (fft.y = fft.x)

\* The round trip of a size-2 block, which does come back
C10_RoundTripSize2 == (fft.pc = "inverse" /\ fft.N = 2) => (fft.y = fft.x)

(***************************************************************************)
(* Claims about one audio tick of the src/src build                        *)
(***************************************************************************)
ProcessTick == tick.mode \in {"normal", "freeze"}

\* C3: while no IR has been successfully loaded, every tick that calls
\* Process gets back exactly the pair it handed in, whatever the input and
\* the parameter settings; with freeze off that pair is the callback's input.
C3_NoIRPassThrough ==
    (ProcessTick /\ ~tick.loadedOk) =>
        /\ ~tick.hasIR
        /\ tick.outL = tick.procL /\ tick.outR = tick.procR
        /\ (tick.mode = "normal") => (tick.outL = tick.inL /\ tick.outR = tick.inR)

\* A tick without IR, with a stereo input and the mix knob fully wet
C3_Witness ==
    /\ tick.mode = "normal" /\ ~tick.loadedOk
    /\ tick.inL = 32 /\ tick.inR = 0 /\ tick.dryWet = 2
    /\ load.call = "LoadIR" /\ ~load.ret

\* C5: on every non-bypassed tick with an IR loaded, frozen or not, the
\* output pair is in * (1 - dryWet) + wet * dryWet, with in the tick's
\* original input pair and wet the filtered, width-processed sample.
C5_MixOriginalInput ==
    (ProcessTick /\ tick.hasIR) =>
        /\ tick.outL = ((tick.inL * (2 - tick.dryWet)) \div 2)
                       + ((tick.filteredL * tick.dryWet) \div 2)
        /\ tick.outR = ((tick.inR * (2 - tick.dryWet)) \div 2)
                       + ((tick.filteredR * tick.dryWet) \div 2)

\* The same mix with the pair the callback handed to Process, which under
\* freeze is (0, 0) and not the tick's input
C5_MixProcessInput ==
    (ProcessTick /\ tick.hasIR) =>
        /\ tick.outL = ((tick.procL * (2 - tick.dryWet)) \div 2)
                       + ((tick.filteredL * tick.dryWet) \div 2)
        /\ tick.outR = ((tick.procR * (2 - tick.dryWet)) \div 2)
                       + ((tick.filteredR * tick.dryWet) \div 2)

\* With freeze off the claimed mix holds
C5_MixWhenNotFrozen == (tick.mode = "normal") => C5_MixOriginalInput

\* A wet sample that is not zero reaches the mix
C5_WetReached == tick.mode = "normal" /\ tick.filteredL # 0 /\ tick.dryWet = 1

(***************************************************************************)
(* The src/src build with the predelay knob in play                        *)
(***************************************************************************)
NextPredelay ==
    \/ /\ n < MaxTicks
       /\ \E inL \in InSamples, inR \in InSamples :
             ((inL # 0 \/ inR # 0) => Pulses < MaxPulses) /\ AudioCallback(inL, inR)
    \/ HandleFootswitch1
    \/ HandleFootswitch2
    \/ \E value \in KnobValues : HandleKnob2(value)
    \/ LoadIRCallback(Buf(IrPatternA, EARLY_FFT_SIZE + LATE_FFT_SIZE), NULL,
                      EARLY_FFT_SIZE + LATE_FFT_SIZE)

SpecPredelay == Init /\ [][NextPredelay]_vars

\* C7: on every tick during which freeze is active, the value written into
\* each tier's input accumulator is zero on both channels, for every
\* predelay setting and every input history.
C7_FreezeWritesZero ==
    (tick.mode = "freeze" /\ tick.hasIR) =>
        /\ tick.earlyInL = 0 /\ tick.earlyInR = 0
        /\ tick.lateInL = 0 /\ tick.lateInR = 0

\* With the predelay at 0 a frozen tick does write zeros
C7_FreezeWritesZeroNoPredelay ==
    (tick.predelayInSamples = 0) => C7_FreezeWritesZero

\* C6: with the predelay at K samples, the pair handed to the convolver at
\* the i-th Process call is the input pair of the call K calls earlier, and
\* zero while fewer than K calls came before; K = 0 hands over the current
\* input.  (hist logs each Process call of whichever build is running.)
C6_PredelayOffset ==
    \A i \in 1..Len(hist) :
        LET K == hist[i].predelayInSamples
        IN /\ hist[i].delayedL = IF i - K >= 1 THEN hist[i - K].inL ELSE 0
           /\ hist[i].delayedR = IF i - K >= 1 THEN hist[i - K].inR ELSE 0

C6_DelayedImpulseReached ==
    /\ Len(hist) = 3 /\ hist[3].predelayInSamples = 2 /\ hist[3].delayedL = 32

(***************************************************************************)
(* The src/src build fed an impulse: an IR is loaded before the first      *)
(* processed tick, both channels get the same sample                       *)
(***************************************************************************)
MaxImpulseTicks == 6

NextImpulse ==
    \/ /\ n < MaxImpulseTicks
       /\ \E in \in InSamples : (in # 0 => Pulses < MaxPulses) /\ AudioCallback(in, in)
    \/ HandleFootswitch1
    \/ HandleFootswitch2
    \/ /\ hist = << >>
       /\ \E pat \in {IrPatternA, IrPatternB} :
          \E length \in {EARLY_FFT_SIZE, EARLY_FFT_SIZE + LATE_FFT_SIZE} :
             LoadIRCallback(Buf(pat, length), NULL, length)

SpecImpulse == Init /\ [][NextImpulse]_vars

\* A unit impulse followed by zeros, freeze off throughout
ImpulseRun ==
    /\ Len(hist) >= 1
    /\ hist[1].inL = 32 /\ hist[1].inR = 32
    /\ \A i \in 2..Len(hist) : hist[i].inL = 0 /\ hist[i].inR = 0
    /\ \A i \in 1..Len(hist) : ~hist[i].freeze /\ hist[i].predelayInSamples = 0

\* The wet samples so far are the IR shifted by d ticks, zero elsewhere
WetIsShiftedIR(d) ==
    \A i \in 1..Len(hist) :
        LET j == i - 1 - d
            a == IF j >= 0 /\ j < reverb.irLength THEN reverb.irBuffer[j] * 32 ELSE 0
        IN hist[i].wetL = a /\ hist[i].wetR = a

\* C4: with an IR a0..ak that fits in the early plus late tier, predelay 0
\* and freeze off, a unit impulse followed by zeros makes the wet sample
\* reproduce a0..ak in order, shifted by the tiers' latency, zero elsewhere.
C4_ImpulseIdentity ==
    ImpulseRun => \E d \in 0..(EARLY_FFT_SIZE + LATE_FFT_SIZE) : WetIsShiftedIR(d)

\* For an IR that fits in the early tier alone the identity holds, with a
\* latency of EARLY_FFT_SIZE - 1 ticks
C4_EarlyOnlyIdentity ==
    (ImpulseRun /\ reverb.irLength <= EARLY_FFT_SIZE) => WetIsShiftedIR(EARLY_FFT_SIZE - 1)

C4_EarlyOnlyReached ==
    /\ ImpulseRun /\ reverb.irLength = EARLY_FFT_SIZE /\ Len(hist) = 4
    /\ hist[3].wetL = 64

\* No sample is left anywhere in the signal path
AllZero(buf) == \A i \in DOMAIN buf : buf[i] = 0

SignalSilent ==
    /\ AllZero(sdram.g_predelayBuffer) /\ AllZero(sdram.g_predelayBufferRight)
    /\ AllZero(reverb.earlyInputBuffer) /\ AllZero(reverb.earlyInputBufferRight)
    /\ AllZero(reverb.earlyOutputBuffer) /\ AllZero(reverb.earlyOutputBufferRight)
    /\ AllZero(sdram.g_lateInputBuffer) /\ AllZero(sdram.g_lateInputBufferRight)
    /\ AllZero(sdram.g_lateOutputBuffer) /\ AllZero(sdram.g_lateOutputBufferRight)
    /\ reverb.lowCutFilterL.z = 0 /\ reverb.highCutFilterL.z = 0
    /\ reverb.lowCutFilterR.z = 0 /\ reverb.highCutFilterR.z = 0

\* Freeze has been on at every processed tick from the i-th on
FrozenSince(i) == \A j \in i..Len(hist) : hist[j].freeze

\* C8: once the convolver has been excited and freeze is turned on and kept
\* on (the input being silent), the wet tail does not decay to silence: as
\* long as freeze stays on, the engine never reaches the state in which the
\* wet output is zero for good.
C8_FrozenTailAlive ==
    \A i \in 1..Len(hist) :
        (hist[i].wetL # 0 /\ FrozenSince(i) /\ freeze /\ ~bypass) => ~SignalSilent

\* From a silent engine every frozen tick gives a zero wet pair and leaves
\* the engine silent: silence under freeze is for good
C8_SilenceStays ==
    [][(SignalSilent /\ freeze /\ ~bypass /\ n' = n + 1)
          => (SignalSilent' /\ tick'.wetL = 0 /\ tick'.wetR = 0)]_vars

\* With freeze off the tail of an impulse is over after the IR's length
C8_TailEndsUnfrozen ==
    ImpulseRun =>
        \A i \in 1..Len(hist) :
            (i > reverb.irLength + EARLY_FFT_SIZE - 1) => (hist[i].wetL = 0 /\ hist[i].wetR = 0)

C8_TailEndReached ==
    ImpulseRun /\ Len(hist) > reverb.irLength + EARLY_FFT_SIZE - 1 /\ hist[3].wetL # 0

(***************************************************************************)
(* The src/src build with the audio interrupt free to preempt the main     *)
(* loop between the statements of UpdateIRFrequencyDomain                  *)
(***************************************************************************)
MaxRaceTicks == 3

\* The main loop enters UpdateIRFrequencyDomain on engine state e1
UpdBegin(e1) ==
    /\ ctl = "idle"
    /\ reverb' = e1.r
    /\ sdram' = e1.g
    /\ pub' = [old |-> Spectra(Engine), new |-> Spectra(UpdateIRFrequencyDomain(e1))]
    /\ ctl' = "clear"
    /\ UNCHANGED << rootVars, bypass, freeze, isStereoInput, tick, hist, load, loadedOk, fft, n >>

\* LoadIRCallback -> reverb.LoadIR(bufferL, length), up to the call of
\* UpdateIRFrequencyDomain
MainLoadIR(buffer, length) ==
    /\ LengthValid(length)
    /\ UpdBegin(LoadIRStore(Engine, buffer, length))

\* HandleKnob3 -> reverb.SetIRLengthFactor(value), up to the call of
\* UpdateIRFrequencyDomain
MainSetIRLengthFactor(factor) ==
    /\ factor # reverb.irLengthFactor
    /\ UpdBegin([Engine EXCEPT !.r.irLengthFactor = factor])

\* One statement of UpdateIRFrequencyDomain on the main loop
MainUpdStep ==
    /\ ctl # "idle"
    /\ LET e2 == UpdStep(Engine, ctl)
           pc == UpdNextPc(reverb, ctl)
       IN /\ reverb' = e2.r
          /\ sdram' = e2.g
          /\ ctl' = IF pc = "done" THEN "idle" ELSE pc
    /\ UNCHANGED << rootVars, bypass, freeze, isStereoInput, tick, hist, load, loadedOk,
                    fft, pub, n >>

NextRace ==
    \/ /\ n < MaxRaceTicks
       /\ \E in \in InSamples : AudioCallback(in, in)
    \/ HandleFootswitch2
    \/ \E pat \in {IrPatternA, IrPatternB} :
          MainLoadIR(Buf(pat, EARLY_FFT_SIZE + LATE_FFT_SIZE),
                     EARLY_FFT_SIZE + LATE_FFT_SIZE)
    \/ \E factor \in {1, 2} : MainSetIRLengthFactor(factor)
    \/ MainUpdStep

SpecRace == Init /\ [][NextRace]_vars

\* The tiers whose spectra the tick multiplied with
SeenBy(s) ==
    /\ tick.earlyBlock => tick.seen.early = s.early
    /\ tick.lateBlock => tick.seen.late = s.late

\* C2: a tick never observes a spectrum in the middle of a recomputation:
\* under every interleaving of the main loop's LoadIR / SetIRLengthFactor
\* with the audio callback, the spectra a Process tick reads are, for all
\* tiers and both channels, the complete spectra from before the call or
\* the complete spectra from after it.
C2_NoTornSpectrum ==
    (ProcessTick /\ tick.hasIR) => (SeenBy(pub.old) \/ SeenBy(pub.new))

\* Run without interruption the update does end in the spectra announced
C2_UpdateEndsInNew ==
    (ctl = "idle" /\ n = 0) => Spectra(Engine) = pub.new

(***************************************************************************)
(* The root build running                                                  *)
(***************************************************************************)
MaxConvTicks == 3

NextConv ==
    /\ n < MaxConvTicks
    /\ \E ctrl \in ConvControls : \E inL \in InSamples, inR \in InSamples :
          ConvAudioCallback(ctrl, inL, inR)

SpecConv == Init /\ [][NextConv]_vars


\* C1: a LoadIR / LoadStereoIR call with length 0 or a length above the
\* engine's IR capacity returns false and leaves the IR samples, irLength,
\* the true-stereo flag and every stored spectrum as they were
C1_InvalidLengthRejected ==
    (load.call # "none" /\ (load.length = 0 \/ load.length > load.capacity))
        => (~load.ret /\ load.unchanged)

C1_InvalidLengthReached ==
    /\ load.call # "none"
    /\ (load.length = 0 \/ load.length > load.capacity)

\* C9: no audio callback runs UpdateIRFrequencyDomain: at the end of every
\* callback the count of recomputations made inside it is zero
C9_NoUpdateInCallback ==
    (tick.mode # "none") => (tick.updateCalls = 0)

\* The root build's predelay at one sample hands over the current input
C6_RootOneSampleIsNoDelay ==
    \A i \in 1..Len(hist) :
        (hist[i].predelayInSamples = 1) => (hist[i].delayedL = hist[i].inL)


(***************************************************************************)
(* The setters of both engines called directly, with arguments inside and  *)
(* outside the documented ranges, on engines with no IR, a mono IR or a    *)
(* stereo IR.  tick records the last call.                                 *)
(***************************************************************************)
MaxCalls == 3

\* One call of a setter of PartitionedConvolutionReverb
PartitionedSetter(e, call, arg) ==
    CASE call = "SetDryWet"         -> SetDryWet(e, arg)
      [] call = "SetPredelay"       -> SetPredelay(e, arg)
      [] call = "SetIRLengthFactor" -> SetIRLengthFactor(e, arg)
      [] call = "SetLowCut"         -> SetLowCut(e, arg)
      [] call = "SetHighCut"        -> SetHighCut(e, arg)
      [] call = "SetStereoWidth"    -> SetStereoWidth(e, arg)

\* One call of a setter of ConvolutionReverb; r is the value rand() gives
ConvSetter(c, call, arg, r) ==
    CASE call = "SetIRLength"    -> ConvSetIRLength(c, arg)
      [] call = "SetPredelay"    -> ConvSetPredelay(c, arg)
      [] call = "SetLowCut"      -> ConvSetLowCut(c, arg)
      [] call = "SetHighCut"     -> ConvSetHighCut(c, arg)
      [] call = "SetFreeze"      -> ConvSetFreeze(c, arg)
      [] call = "SetStereoWidth" -> ConvSetStereoWidth(c, arg, r)

\* Arguments offered to each setter: below, inside and above its range.
\* dryWet, irLengthFactor and stereoWidth of the src/src engine in halves,
\* irLengthMultiplier of the root engine in twentieths, its width in halves.
PartitionedArgs ==
    [SetDryWet |-> {-1, 1, 3}, SetPredelay |-> {-250, 250, 750},
     SetIRLengthFactor |-> {-1, 1, 3}, SetLowCut |-> {5, 500, 5000},
     SetHighCut |-> {500, 5000, 50000}, SetStereoWidth |-> {-1, 3, 6}]

ConvArgs ==
    [SetIRLength |-> {-4, 10, 30}, SetPredelay |-> {-250, 250, 750},
     SetLowCut |-> {5, 500, 5000}, SetHighCut |-> {500, 5000, 50000},
     SetFreeze |-> {TRUE}, SetStereoWidth |-> {-1, 3, 6}]

\* A setter of the src/src engine called with arg
CallPartitioned(call, arg) ==
    \E e2 \in {PartitionedSetter(Engine, call, arg)} :
       /\ n' = n + 1
       /\ reverb' = e2.r
       /\ sdram' = e2.g
       /\ tick' = [mode |-> "call", build |-> "src/src", call |-> call, arg |-> arg,
                   updateCalls |-> 0,
                   irUnchanged |-> (IRState(e2) = IRState(Engine))]
       /\ UNCHANGED << rootVars, bypass, freeze, isStereoInput, ctl, hist, load,
                       loadedOk, fft, pub >>

\* A setter of the root engine called with arg
CallConv(call, arg, r) ==
    \E c2 \in {ConvSetter([convReverb EXCEPT !.updateCalls = 0], call, arg, r)} :
       /\ n' = n + 1
       /\ convReverb' = c2
       /\ tick' = [mode |-> "call", build |-> "root", call |-> call, arg |-> arg,
                   updateCalls |-> c2.updateCalls,
                   irUnchanged |-> (ConvIRState(c2) = ConvIRState(convReverb))]
       /\ UNCHANGED << root, reverb, sdram, bypass, freeze, isStereoInput, ctl,
                       hist, load, loadedOk, fft, pub >>

\* convReverb.LoadIR / convReverb.LoadStereoIR called directly
CallConvLoad(stereo, irL, irR, length) ==
    \E st \in {ConvLoad([c |-> [convReverb EXCEPT !.updateCalls = 0], g |-> root,
                         load |-> load], stereo, irL, irR, length)} :
       /\ n' = n + 1
       /\ convReverb' = st.c
       /\ load' = st.load
       /\ tick' = [mode |-> "call", build |-> "root",
                   call |-> st.load.call, arg |-> length,
                   updateCalls |-> st.c.updateCalls,
                   irUnchanged |-> st.load.unchanged]
       /\ UNCHANGED << root, reverb, sdram, bypass, freeze, isStereoInput, ctl,
                       hist, loadedOk, fft, pub >>

\* Either outcome of the float to size_t conversion of a negative value
InitSetters ==
    /\ \E castWraps \in BOOLEAN : PedalCast(castWraps)
    /\ fft = FftNone

NextSetters ==
    /\ n < MaxCalls
    /\ \/ \E call \in DOMAIN PartitionedArgs : \E arg \in PartitionedArgs[call] :
             CallPartitioned(call, arg)
       \/ \E call \in DOMAIN ConvArgs : \E arg \in ConvArgs[call], r \in {0, 1} :
             CallConv(call, arg, r)
       \/ \E length \in {EARLY_FFT_SIZE + 1} :
          \E bufferR \in {NULL, Buf(IrPatternB, length)} :
             LoadIRCallback(Buf(IrPatternA, length), bufferR, length)
       \/ \E length \in {EARLY_FFT_SIZE + 1} : \E stereo \in BOOLEAN :
             CallConvLoad(stereo, Arr(<< 20, 10, 5 >>), Arr(<< 5, 10, 20 >>), length)

SpecSetters == InitSetters /\ [][NextSetters]_vars


\* C11: after construction and after any setter calls, with any arguments,
\* the parameters of both engines are inside their documented ranges
\* (dryWet 0..1, predelayMs 0..500, irLengthFactor 0..1, low cut 20..2000,
\* high cut 1000..20000, stereoWidth 0..2)
C11_ParametersInRange ==
    /\ reverb.dryWet \in 0..2
    /\ reverb.predelayMs \in 0..500
    /\ reverb.irLengthFactor \in 0..2
    /\ reverb.lowCutFreq \in 20..2000
    /\ reverb.highCutFreq \in 1000..20000
    /\ reverb.stereoWidth \in 0..4
    /\ convReverb.predelayMs \in 0..500
    /\ convReverb.irLengthMultiplier \in 0..20
    /\ convReverb.lowCutFreq \in 20..2000
    /\ convReverb.highCutFreq \in 1000..20000
    /\ convReverb.stereoWidth \in 0..4

\* The parameters the root engine's setters do clamp stay in range
C11_RootClampedInRange ==
    /\ convReverb.irLengthMultiplier \in 0..20
    /\ convReverb.lowCutFreq \in 20..2000
    /\ convReverb.highCutFreq \in 1000..20000
    /\ convReverb.stereoWidth \in 0..4

\* The in-range value nearest to x
Nearest(x, lo, hi) == IF x < lo THEN lo ELSE IF x > hi THEN hi ELSE x

\* The parameter a setter call of one build has just set
StoredBy(build, call) ==
    IF build = "root"
    THEN CASE call = "SetIRLength"    -> convReverb.irLengthMultiplier
           [] call = "SetLowCut"      -> convReverb.lowCutFreq
           [] call = "SetHighCut"     -> convReverb.highCutFreq
           [] call = "SetStereoWidth" -> convReverb.stereoWidth
    ELSE CASE call = "SetIRLengthFactor" -> reverb.irLengthFactor
           [] call = "SetLowCut"         -> reverb.lowCutFreq
           [] call = "SetHighCut"        -> reverb.highCutFreq
           [] call = "SetStereoWidth"    -> reverb.stereoWidth

\* The documented range of that parameter, in the units of its build
RangeOf(build, call) ==
    CASE call = "SetIRLength"       -> << 0, 20 >>
      [] call = "SetIRLengthFactor" -> << 0, 2 >>
      [] call = "SetLowCut"         -> << 20, 2000 >>
      [] call = "SetHighCut"        -> << 1000, 20000 >>
      [] call = "SetStereoWidth"    -> << 0, 4 >>

ClampingSetters ==
    {"SetIRLength", "SetIRLengthFactor", "SetLowCut", "SetHighCut", "SetStereoWidth"}

\* C12: after a call of SetLowCut, SetHighCut, SetStereoWidth or SetIRLength
\* (SetIRLengthFactor) the stored parameter is the in-range value nearest to
\* the argument
C12_SetterStoresNearest ==
    (tick.mode = "call" /\ tick.call \in ClampingSetters)
        => StoredBy(tick.build, tick.call)
             = Nearest(tick.arg, RangeOf(tick.build, tick.call)[1],
                       RangeOf(tick.build, tick.call)[2])

\* The root engine's setters do store the nearest in-range value, and set
\* both channels' filters to it
C12_RootSettersClamp ==
    /\ (tick.mode = "call" /\ tick.build = "root") => C12_SetterStoresNearest
    /\ convReverb.lowCutFilterL.freq = convReverb.lowCutFreq
    /\ convReverb.lowCutFilterR.freq = convReverb.lowCutFreq
    /\ convReverb.highCutFilterL.freq = convReverb.highCutFreq
    /\ convReverb.highCutFilterR.freq = convReverb.highCutFreq

C12_RootClampReached ==
    /\ tick.mode = "call" /\ tick.build = "root"
    /\ tick.call = "SetLowCut" /\ tick.arg = 5 /\ convReverb.lowCutFreq = 20

\* C14: after any SetPredelay calls the delay in samples is between 0 and
\* capacity - 1, and the read index of the predelay line, computed from it
\* in unsigned arithmetic at any write position, is inside the line
C14_DelayInsideLine ==
    /\ reverb.predelayInSamples \in 0..(MAX_PREDELAY_SAMPLES - 1)
    /\ convReverb.predelaySamples \in 0..(convReverb.predelayBufferSize - 1)
    /\ \A pos \in 0..(MAX_PREDELAY_SAMPLES - 1) :
          /\ pos + MAX_PREDELAY_SAMPLES - reverb.predelayInSamples >= 0
          /\ (pos + MAX_PREDELAY_SAMPLES - reverb.predelayInSamples)
                 % MAX_PREDELAY_SAMPLES \in 0..(MAX_PREDELAY_SAMPLES - 1)
    /\ \A pos \in 0..(convReverb.predelayBufferSize - 1) :
          /\ pos + convReverb.predelayBufferSize - convReverb.predelaySamples >= 0
          /\ (pos + convReverb.predelayBufferSize - convReverb.predelaySamples)
                 % convReverb.predelayBufferSize
                 \in 0..(convReverb.predelayBufferSize - 1)

\* SetPredelay(750 ms) has been limited to capacity - 1
C14_LimitReached ==
    /\ tick.mode = "call" /\ tick.build = "src/src"
    /\ tick.call = "SetPredelay" /\ tick.arg = 750
    /\ reverb.predelayInSamples = MAX_PREDELAY_SAMPLES - 1

\* The conversion of a negative argument has wrapped and has been limited
C14_WrappedReached ==
    /\ tick.mode = "call" /\ tick.call = "SetPredelay" /\ tick.arg = -250
    /\ reverb.castWraps
    /\ reverb.predelayInSamples = MAX_PREDELAY_SAMPLES - 1

\* C15: SetDryWet, SetPredelay, SetLowCut, SetHighCut, SetStereoWidth and
\* SetFreeze leave the IR samples and every stored spectrum unchanged and
\* do not run UpdateIRFrequencyDomain, whatever IR is loaded
C15_OtherSettersLeaveIR ==
    (tick.mode = "call"
        /\ tick.call \in {"SetDryWet", "SetPredelay", "SetLowCut", "SetHighCut",
                          "SetStereoWidth", "SetFreeze"})
        => (tick.irUnchanged /\ tick.updateCalls = 0)

\* Apart from the root engine's SetStereoWidth it is so
C15_ExceptRootWidth ==
    (tick.mode = "call" /\ ~(tick.build = "root" /\ tick.call = "SetStereoWidth"))
        => C15_OtherSettersLeaveIR


(***************************************************************************)
(* Both builds processing samples long enough for every input cursor to    *)
(* wrap                                                                    *)
(***************************************************************************)
MaxCursorTicks == 6

NextCursor ==
    \/ /\ n < MaxCursorTicks
       /\ \E in \in InSamples : (in # 0 => Pulses < MaxPulses) /\ AudioCallback(in, in)
    \/ /\ n < MaxCursorTicks
       /\ \E ctrl \in {CtlBase, [CtlBase EXCEPT !.knob2 = 1]} :
          \E in \in InSamples :
             (in # 0 => Pulses < MaxPulses) /\ ConvAudioCallback(ctrl, in, in)
    \/ HandleFootswitch2
    \/ /\ hist = << >>
       /\ LoadIRCallback(Buf(IrPatternA, EARLY_FFT_SIZE + LATE_FFT_SIZE), NULL,
                         EARLY_FFT_SIZE + LATE_FFT_SIZE)

SpecCursor == Init /\ [][NextCursor]_vars

\* C13: the write cursor of every input accumulator (early and late tier of
\* the src/src engine, the single block of the root engine) is below its
\* block size in every state, so at every write and after every Process tick
C13_CursorBelowBlockSize ==
    /\ reverb.earlyInputBufferPos \in 0..(EARLY_FFT_SIZE - 1)
    /\ reverb.lateInputBufferPos \in 0..(LATE_FFT_SIZE - 1)
    /\ convReverb.inputBufferPos \in 0..(FFT_SIZE - 1)

\* a src/src tick that filled the late block and wrapped its cursor
C13_LateCursorWrapped ==
    /\ tick.mode = "normal"
    /\ tick.lateBlock
    /\ reverb.lateInputBufferPos = 0
    /\ reverb.earlyInputBufferPos = 0

\* a root tick that filled the block and wrapped the cursor
C13_RootCursorWrapped ==
    /\ tick.mode = "process"
    /\ Len(hist) = FFT_SIZE
    /\ convReverb.inputBufferPos = 0


(***************************************************************************)
(* The src/src build with IR loads arriving between processed samples      *)
(***************************************************************************)
MaxLoadTicks == 5

NextLoad ==
    \/ /\ n < MaxLoadTicks
       /\ \E in \in InSamples : AudioCallback(in, in)
    \/ HandleFootswitch2
    \/ \E length \in {0, EARLY_FFT_SIZE + LATE_FFT_SIZE} :
          LoadIRCallback(Buf(IrPatternA, length), NULL, length)
    \/ \E length \in {EARLY_FFT_SIZE + 1, MAX_IR_LENGTH + 1} :
          LoadIRCallback(Buf(IrPatternA, length), Buf(IrPatternB, length), length)

SpecLoad == Init /\ [][NextLoad]_vars

\* C16: a LoadIR or LoadStereoIR call of the src/src engine, successful or
\* failed, leaves the predelay ring and its write position, both tiers'
\* input accumulators and cursors, the output accumulators and the filter
\* states as they were
C16_LoadKeepsProcessingState ==
    (load.call \in {"LoadIR", "LoadStereoIR"}) => load.kept

\* a successful load after samples were processed, with a sample held in
\* the predelay ring and the late cursor inside its block
C16_LoadedWhileRunning ==
    /\ load.call = "LoadStereoIR" /\ load.ret /\ ~load.unchanged
    /\ load.ticks = Len(hist) /\ Len(hist) >= 1
    /\ sdram.g_predelayBuffer # Zeros(MAX_PREDELAY_SAMPLES)
    /\ reverb.lateInputBufferPos # 0

\* a rejected load after samples were processed
C16_RejectedWhileRunning ==
    /\ load.call = "LoadStereoIR" /\ ~load.ret
    /\ load.ticks = Len(hist) /\ Len(hist) >= 1
    /\ sdram.g_predelayBuffer # Zeros(MAX_PREDELAY_SAMPLES)


\* C17: after a successful LoadIR the engine is not in true-stereo mode and
\* the right channel's spectra equal the left channel's in every tier,
\* whatever stereo pair was loaded before; after a successful LoadStereoIR
\* it is in true-stereo mode and each channel's spectra are those of the IR
\* passed for that channel
C17_LoadSetsChannelSpectra ==
    (load.call \in {"LoadIR", "LoadStereoIR"} /\ load.ret) =>
        /\ load.post.trueStereoIR = (load.call = "LoadStereoIR")
        /\ (load.call = "LoadIR") => load.post.rightIsLeft
        /\ load.post.own

\* a mono IR loaded into the src/src engine while a stereo pair with
\* different channels was in use
C17_MonoAfterStereo ==
    /\ load.call = "LoadIR" /\ load.ret
    /\ load.post.build = "src/src"
    /\ load.post.wasStereo

\* the same in the root engine
C17_RootMonoAfterStereo ==
    /\ load.call = "LoadIR" /\ load.ret
    /\ load.post.build = "root"
    /\ load.post.wasStereo

\* a stereo pair loaded, the channels' spectra differ
C17_StereoLoaded ==
    /\ load.call = "LoadStereoIR" /\ load.ret
    /\ ~load.post.rightIsLeft
    /\ RightSpectra(Engine) # LeftSpectra(Engine)


\* C18: in both engines the IR length UpdateIRFrequencyDomain uses is
\* floor(irLength * irLengthFactor) limited to at most irLength, and lies in
\* 0..irLength (the factor in halves in src/src, in twentieths in root)
C18_EffectiveLengthIsFloor ==
    /\ EffectiveIrLength(reverb)
           = Min((reverb.irLength * reverb.irLengthFactor) \div 2, reverb.irLength)
    /\ EffectiveIrLength(reverb) \in 0..reverb.irLength
    /\ ConvEffectiveIrLength(convReverb)
           = Min((convReverb.irLength * convReverb.irLengthMultiplier) \div 20,
                 convReverb.irLength)
    /\ ConvEffectiveIrLength(convReverb) \in 0..convReverb.irLength

\* The bounds alone hold in both engines, for either outcome of the
\* conversion of a negative product
C18_EffectiveLengthBounded ==
    /\ EffectiveIrLength(reverb) \in 0..reverb.irLength
    /\ ConvEffectiveIrLength(convReverb) \in 0..convReverb.irLength

\* With the factor inside 0..1 the src/src length is the floor of the product
C18_FloorForFactorInRange ==
    (reverb.irLengthFactor \in 0..2) =>
        EffectiveIrLength(reverb)
            = Min((reverb.irLength * reverb.irLengthFactor) \div 2, reverb.irLength)

\* The root engine limits the length to the FFT block instead
C18_RootLimitedToBlock ==
    ConvEffectiveIrLength(convReverb)
        = Min((convReverb.irLength * convReverb.irLengthMultiplier) \div 20, FFT_SIZE)

\* src/src: a loaded IR and a negative factor
C18_NegativeFactorReached ==
    /\ reverb.irLength > 0 /\ reverb.irLengthFactor < 0
    /\ tick.mode = "call" /\ tick.call = "SetIRLengthFactor"


(***************************************************************************)
(* UpdateIRFrequencyDomain of the src/src engine over IR lengths up to the *)
(* capacity and length factors inside and outside 0..1                     *)
(***************************************************************************)
MaxSliceCalls == 2

NextSlice ==
    \/ /\ n < MaxSliceCalls
       /\ \E arg \in {-1, 0, 1, 2, 3} : CallPartitioned("SetIRLengthFactor", arg)
    \/ \E length \in {1, EARLY_FFT_SIZE, EARLY_FFT_SIZE + 1,
                      EARLY_FFT_SIZE + LATE_FFT_SIZE, MAX_IR_LENGTH} :
       \E bufferR \in {NULL, Buf(IrPatternB, length)} :
          LoadIRCallback(Buf(IrPatternA, length), bufferR, length)

SpecSlice == InitSetters /\ [][NextSlice]_vars

\* size samples: those of buf from index from up to, not including, index
\* to, then zeros
Slice(buf, from, to, size) ==
    [i \in 0..(size - 1) |-> IF from + i < to THEN buf[from + i] ELSE 0]

\* The early and late spectra of one channel built from contiguous slices of its IR
SlicedSpectra(buf, effective) ==
    [early |-> Direct(EARLY_FFT_SIZE,
                      Slice(buf, 0, Min(effective, EARLY_FFT_SIZE), EARLY_FFT_SIZE)),
     late |-> IF effective <= EARLY_FFT_SIZE
              THEN Zeros(LATE_FFT_SIZE)
              ELSE Direct(LATE_FFT_SIZE,
                          Slice(buf, EARLY_FFT_SIZE,
                                Min(effective, EARLY_FFT_SIZE + LATE_FFT_SIZE),
                                LATE_FFT_SIZE))]

\* C19: the early spectrum is that of IR samples [0, min(effective, early
\* block)) zero-padded, the late spectrum that of samples [early block,
\* min(effective, early + late block)) zero-padded and all zero when the
\* effective length is inside the early block; no index from the effective
\* length on is read
C19_ContiguousSlices ==
    (reverb.irBuffer # NULL) =>
        LET effective == EffectiveIrLength(reverb)
            left == SlicedSpectra(reverb.irBuffer, effective)
            right == SlicedSpectra(IF reverb.trueStereoIR THEN reverb.irBufferRight
                                   ELSE reverb.irBuffer, effective)
        IN /\ reverb.earlyIrFreqReal = left.early
           /\ sdram.g_lateIrFreqReal = left.late
           /\ reverb.earlyIrFreqRealRight = right.early
           /\ sdram.g_lateIrFreqRealRight = right.late
           /\ \A i \in IrReads(reverb) : i < effective /\ i < reverb.irLength

\* an IR cut inside the late block: part of the late slice is padding
C19_CutInsideLateBlock ==
    /\ reverb.irLength = MAX_IR_LENGTH
    /\ EffectiveIrLength(reverb) = EARLY_FFT_SIZE + 1
    /\ sdram.g_lateIrFreqReal # Zeros(LATE_FFT_SIZE)

\* an IR cut inside the early block: the late spectrum is all zero
C19_CutInsideEarlyBlock ==
    /\ reverb.irLength = EARLY_FFT_SIZE + LATE_FFT_SIZE
    /\ EffectiveIrLength(reverb) = 0
    /\ tick.mode = "call" /\ tick.arg = 0
    /\ sdram.g_lateIrFreqReal = Zeros(LATE_FFT_SIZE)

\* an IR longer than both blocks: the samples past them are not used
C19_LongerThanBothBlocks ==
    /\ EffectiveIrLength(reverb) = MAX_IR_LENGTH
    /\ reverb.trueStereoIR
    /\ sdram.g_lateIrFreqRealRight # sdram.g_lateIrFreqReal


(***************************************************************************)
(* Both builds processing stereo input with the width away from 1.0, mono  *)
(* and true-stereo IRs loaded                                              *)
(***************************************************************************)
MaxWidthTicks == 3

WidthControls ==
    { CtlBase,
      [CtlBase EXCEPT !.stereoWidth = 1, !.r = 1],
      [CtlBase EXCEPT !.usb = StickShortMono, !.switchPos = IR_SHORT_ECHO,
                      !.stereoWidth = 1, !.r = 1] }

NextWidth ==
    \/ /\ n < MaxWidthTicks
       /\ \E inL \in InSamples : AudioCallback(inL, 0)
    \/ /\ n < MaxWidthTicks
       /\ \E ctrl \in WidthControls : \E inL \in InSamples :
             ConvAudioCallback(ctrl, inL, 0)
    \/ /\ n < MaxWidthTicks
       /\ \E arg \in {0, 2, 4} : CallPartitioned("SetStereoWidth", arg)
    \/ /\ n < MaxWidthTicks
       /\ \E arg \in {0, 4} : CallConv("SetStereoWidth", arg, 1)
    \/ HandleFootswitch2
    \/ \E length \in {EARLY_FFT_SIZE + 1} :
       \E bufferR \in {NULL, Buf(IrPatternB, length)} :
          LoadIRCallback(Buf(IrPatternA, length), bufferR, length)

SpecWidth == Init /\ [][NextWidth]_vars

\* The pair a src/src tick wrote into both tiers' input buffers is pair
SrcWritten(pair) ==
    /\ << tick.earlyInL, tick.earlyInR >> = << pair.L, pair.R >>
    /\ << tick.lateInL, tick.lateInR >> = << pair.L, pair.R >>

\* C20 for a processed sample of the src/src engine
C20_SrcTick ==
    (tick.mode = "normal" /\ tick.hasIR) =>
        /\ reverb.trueStereoIR =>
              SrcWritten([L |-> tick.delayedL, R |-> tick.delayedR])
        /\ (~reverb.trueStereoIR /\ reverb.stereoWidth # 2) =>
              \/ SrcWritten(MidSide(reverb.stereoWidth, tick.delayedL, tick.delayedR))
              \/ RightSpectra(Engine) # LeftSpectra(Engine)

\* C20 for a processed sample of the root engine
C20_RootTick ==
    (tick.mode = "process" /\ ~tick.freeze) =>
        /\ convReverb.trueStereoIR =>
              << tick.writtenL, tick.writtenR >> = << tick.delayedL, tick.delayedR >>
        /\ (~convReverb.trueStereoIR /\ convReverb.stereoWidth # 2) =>
              \/ [L |-> tick.writtenL, R |-> tick.writtenR]
                     = MidSide(convReverb.stereoWidth, tick.delayedL, tick.delayedR)
              \/ << convReverb.irFreqRealRight, convReverb.irFreqImagRight >>
                     # << convReverb.irFreqReal, convReverb.irFreqImag >>

\* C20 for a SetStereoWidth call with a true-stereo IR loaded
C20_WidthCall ==
    (tick.mode = "call" /\ tick.call = "SetStereoWidth") =>
        /\ (tick.build = "root" /\ convReverb.trueStereoIR) => tick.irUnchanged
        /\ (tick.build = "src/src" /\ reverb.trueStereoIR) => tick.irUnchanged

\* C20: with a true-stereo IR the samples entering the convolver are the
\* predelayed input unchanged and SetStereoWidth leaves the IR buffers as
\* they are; with an IR that is not true-stereo and a width other than 1.0
\* the width is applied before the convolution, as mid/side on the
\* predelayed input or as a derived right-channel IR
C20_WidthBeforeConvolution == C20_SrcTick /\ C20_RootTick /\ C20_WidthCall

\* The root build alone does what C20 says
C20_RootWidthBeforeConvolution == C20_RootTick /\ C20_WidthCall

\* With a true-stereo IR the src/src build does too
C20_SrcTrueStereoUnchanged ==
    (tick.mode = "normal" /\ tick.hasIR /\ reverb.trueStereoIR) =>
        SrcWritten([L |-> tick.delayedL, R |-> tick.delayedR])

\* root: a mono IR, width 0.5, a sample with different channels widened
\* before the convolution
C20_RootWidened ==
    /\ tick.mode = "process" /\ ~tick.freeze
    /\ ~convReverb.trueStereoIR /\ convReverb.stereoWidth = 1
    /\ tick.delayedL # tick.delayedR
    /\ << tick.writtenL, tick.writtenR >> # << tick.delayedL, tick.delayedR >>

\* root: a true-stereo IR, width 0.5, a sample with different channels
C20_RootTrueStereoTick ==
    /\ tick.mode = "process" /\ ~tick.freeze
    /\ convReverb.trueStereoIR /\ convReverb.stereoWidth = 1
    /\ tick.delayedL # tick.delayedR

\* src/src: a true-stereo IR, width 0, a sample with different channels
C20_SrcTrueStereoTick ==
    /\ tick.mode = "normal" /\ tick.hasIR
    /\ reverb.trueStereoIR /\ reverb.stereoWidth = 0
    /\ tick.delayedL # tick.delayedR


\* num / den rounded to the nearest integer, halves upwards (num >= 0)
Round(num, den) == (2 * num + den) \div (2 * den)

\* C21: for ms in 0..500, SetPredelay stores round(ms * sampleRate / 1000)
\* limited to capacity - 1, in both engines
C21_PredelayRounded ==
    (tick.mode = "call" /\ tick.call = "SetPredelay" /\ tick.arg \in 0..500) =>
        /\ (tick.build = "src/src") =>
              reverb.predelayInSamples
                  = Min(Round(tick.arg * reverb.sampleRate, 1000),
                        MAX_PREDELAY_SAMPLES - 1)
        /\ (tick.build = "root") =>
              convReverb.predelaySamples
                  = Min(Round(tick.arg * convReverb.sampleRate, 1000),
                        convReverb.predelayBufferSize - 1)

\* What both engines store is the product truncated, then limited
C21_PredelayTruncated ==
    (tick.mode = "call" /\ tick.call = "SetPredelay" /\ tick.arg \in 0..500) =>
        /\ (tick.build = "src/src") =>
              reverb.predelayInSamples
                  = Min((tick.arg * reverb.sampleRate) \div 1000,
                        MAX_PREDELAY_SAMPLES - 1)
        /\ (tick.build = "root") =>
              convReverb.predelaySamples
                  = Min((tick.arg * convReverb.sampleRate) \div 1000,
                        convReverb.predelayBufferSize - 1)

\* SetPredelay(250 ms) at 6 samples per second: 1.5 samples stored as 1
C21_HalfSampleReached ==
    /\ tick.mode = "call" /\ tick.call = "SetPredelay" /\ tick.arg = 250
    /\ tick.build = "src/src" /\ reverb.predelayInSamples = 1


\* C22: with n the number of Process ticks the src/src engine has run with
\* an IR loaded, each tier's cursor is n mod its block size after tick n, a
\* tier runs its block transform on tick n exactly when n mod its block
\* size is 0, and every late block boundary is an early block boundary
C22_BlockEveryBlockSizeTicks ==
    /\ reverb.earlyInputBufferPos = Len(hist) % EARLY_FFT_SIZE
    /\ reverb.lateInputBufferPos = Len(hist) % LATE_FFT_SIZE
    /\ (tick.mode \in {"normal", "freeze"} /\ tick.hasIR) =>
          /\ tick.earlyBlock = (Len(hist) % EARLY_FFT_SIZE = 0)
          /\ tick.lateBlock = (Len(hist) % LATE_FFT_SIZE = 0)
          /\ tick.lateBlock => tick.earlyBlock

\* the tick on which both tiers ran their block
C22_BothBoundariesReached ==
    /\ tick.mode = "normal" /\ tick.hasIR
    /\ Len(hist) = LATE_FFT_SIZE
    /\ tick.earlyBlock /\ tick.lateBlock
    /\ load.ticks > 0

\* an early boundary that is not a late boundary
C22_EarlyBoundaryAlone ==
    /\ tick.mode = "normal" /\ tick.hasIR
    /\ Len(hist) = EARLY_FFT_SIZE
    /\ tick.earlyBlock /\ ~tick.lateBlock


\* The processed ticks of one build, in order
HistOf(build) == SelectSeq(hist, LAMBDA h : h.build = build)

\* src/src: the samples a tier's block left in the first half of its output
\* buffer are the heads read on that tick and the following ones, in order
C23_SrcEmitsBlockInOrder ==
    LET h == HistOf("src/src")
    IN \A i \in 1..Len(h) :
          /\ h[i].earlyBlock =>
                \A k \in 0..(EARLY_FFT_SIZE - 1) :
                    (i + k <= Len(h)) => h[i + k].earlyOut[0] = h[i].earlyOut[k]
          /\ h[i].lateBlock =>
                \A k \in 0..(LATE_FFT_SIZE - 1) :
                    (i + k <= Len(h)) => h[i + k].lateOut[0] = h[i].lateOut[k]

\* root: the same, from the tick of the block on
C23_RootEmitsBlockInOrder ==
    LET h == HistOf("root")
    IN \A i \in 1..Len(h) :
          h[i].block =>
              \A k \in 0..(FFT_SIZE - 1) :
                  (i + k <= Len(h)) => h[i + k].wetL = h[i].out[k]

\* root: the block's samples are read from the tick after the block on
C23_RootEmitsBlockOneTickLater ==
    LET h == HistOf("root")
    IN \A i \in 1..Len(h) :
          h[i].block =>
              \A k \in 0..(FFT_SIZE - 1) :
                  (i + 1 + k <= Len(h)) => h[i + 1 + k].wetL = h[i].out[k]

\* C23: the head of every tier's output accumulator is read on every tick
\* and the accumulator advanced, so the block output y[0..B-1] a tier
\* produced at tick t is what that tier emits at ticks t, t+1, ..., t+B-1,
\* each sample once and in order, in both builds
C23_EmitsBlockInOrder == C23_SrcEmitsBlockInOrder /\ C23_RootEmitsBlockInOrder

\* src/src: an early block with two different samples has been emitted
C23_SrcBlockEmitted ==
    LET h == HistOf("src/src")
    IN \E i \in 1..Len(h) :
          /\ h[i].earlyBlock /\ i + 1 <= Len(h)
          /\ h[i].earlyOut[0] # h[i].earlyOut[1]
          /\ h[i].earlyOut[1] # 0

\* root: a block with a sample other than zero, and the tick after it
C23_RootBlockEmitted ==
    LET h == HistOf("root")
    IN \E i \in 1..Len(h) :
          /\ h[i].block /\ i + 1 <= Len(h)
          /\ h[i].out[0] # 0


\* Sum over j = from..(N - 1) of x[j] * h[i - j], the terms inside the block
RECURSIVE ConvolutionSum(_, _, _, _, _)
ConvolutionSum(x, h, N, i, from) ==
    IF from >= N THEN 0
    ELSE (IF i - from \in 0..(N - 1) THEN x[from] * h[i - from] ELSE 0)
         + ConvolutionSum(x, h, N, i, from + 1)

\* The part of the convolution of the block x with the IR slice h that
\* extends past the block: samples N..(2N - 1)
ConvolutionTail(x, h, N) ==
    [k \in 0..(N - 1) |-> ConvolutionSum(x, h, N, N + k, 0)]

\* C24: at a block boundary the part of the block's convolution result that
\* extends past the block is kept in the other half of the output
\* accumulator for the next block (src/src, early tier, left channel)
C24_TailKeptInOtherHalf ==
    (tick.mode = "normal" /\ tick.hasIR /\ tick.earlyBlock) =>
        \A k \in 0..(EARLY_FFT_SIZE - 1) :
            reverb.earlyOutputBuffer[EARLY_FFT_SIZE + k]
                = ConvolutionTail(reverb.earlyInputBuffer, earlyIrPadded(reverb),
                                  EARLY_FFT_SIZE)[k]

\* What the code does: the other half of every output accumulator of the
\* src/src engine is zero in every state, and the half of the root engine's
\* output ring behind the block just added is zero
C24_OtherHalfAlwaysZero ==
    /\ \A k \in 0..(EARLY_FFT_SIZE - 1) :
          /\ reverb.earlyOutputBuffer[EARLY_FFT_SIZE + k] = 0
          /\ reverb.earlyOutputBufferRight[EARLY_FFT_SIZE + k] = 0
    /\ \A k \in 0..(LATE_FFT_SIZE - 1) :
          /\ sdram.g_lateOutputBuffer[LATE_FFT_SIZE + k] = 0
          /\ sdram.g_lateOutputBufferRight[LATE_FFT_SIZE + k] = 0
    /\ (tick.mode = "process" /\ convReverb.inputBufferPos = 0) =>
          \A k \in 0..(FFT_SIZE - 1) :
              convReverb.outputBufferL[(convReverb.outputBufferPos + FFT_SIZE + k)
                                          % (2 * FFT_SIZE)] = 0

\* src/src: an early block whose convolution result extends past the block
C24_BlockWithTail ==
    /\ tick.mode = "normal" /\ tick.hasIR /\ tick.earlyBlock
    /\ ConvolutionTail(reverb.earlyInputBuffer, earlyIrPadded(reverb),
                       EARLY_FFT_SIZE)[0] # 0


(***************************************************************************)
(* The output width stage of both builds applied to pairs of samples.      *)
(* Samples are multiples of 1/8 (1.0 is 32) and widths multiples of 1/2,   *)
(* so the halvings of the stage are exact                                  *)
(***************************************************************************)
WidthSamples == {-32, -4, 0, 12, 32}

Widths == {-1, 0, 1, 2, 3, 4, 6}

\* The stage of the src/src Process applied to (L, R)
WidthStage(width, L, R) ==
    /\ tick' = [mode |-> "width", build |-> "src/src", width |-> width,
                L |-> L, R |-> R, out |-> StereoWidth(width, L, R)]
    /\ UNCHANGED << rootVars, reverb, sdram, bypass, freeze, isStereoInput, ctl,
                    hist, load, loadedOk, fft, pub, n >>

\* The stage of the root Process applied to (L, R)
ConvWidthStage(width, L, R) ==
    /\ tick' = [mode |-> "width", build |-> "root", width |-> width,
                L |-> L, R |-> R, out |-> ConvOutputWidth(width, L, R)]
    /\ UNCHANGED << rootVars, reverb, sdram, bypass, freeze, isStereoInput, ctl,
                    hist, load, loadedOk, fft, pub, n >>

NextWidthStage ==
    \E width \in Widths : \E L \in WidthSamples, R \in WidthSamples :
        \/ WidthStage(width, L, R)
        \/ ConvWidthStage(width, L, R)

SpecWidthStage == Init /\ [][NextWidthStage]_vars

\* C25: the output width stage of both builds is the mid/side transform:
\* L' + R' = L + R and L' - R' = width * (L - R) (width in halves), so
\* width 1.0 leaves the pair unchanged and width 0 gives L' = R' = (L + R)/2
C25_MidSideTransform ==
    (tick.mode = "width") =>
        /\ tick.out.L + tick.out.R = tick.L + tick.R
        /\ 2 * (tick.out.L - tick.out.R) = tick.width * (tick.L - tick.R)
        /\ (tick.width = 2) => (tick.out.L = tick.L /\ tick.out.R = tick.R)
        /\ (tick.width = 0) =>
              /\ tick.out.L = tick.out.R
              /\ 2 * tick.out.L = tick.L + tick.R

\* width 0 applied to a pair with different channels
C25_CollapsedToMid ==
    /\ tick.mode = "width" /\ tick.build = "src/src"
    /\ tick.width = 0 /\ tick.L = 32 /\ tick.R = -4
    /\ tick.out.L = 14 /\ tick.out.R = 14

\* width 1.5 in the root build
C25_RootWidened ==
    /\ tick.mode = "width" /\ tick.build = "root"
    /\ tick.width = 3 /\ tick.L = 32 /\ tick.R = 0
    /\ tick.out.L = 40 /\ tick.out.R = -8


(***************************************************************************)
(* ShyFFT<T, N> for the powers of two up to MaxFftSize: the table Init()   *)
(* fills and the index triples of the butterfly loops of Direct and        *)
(* Complex (called with size = N)                                          *)
(***************************************************************************)
MaxFftSize == 32

PowerOfTwoSizes == {N \in 1..MaxFftSize : 2^log2N(N) = N}

InitFFTIndex ==
    /\ Pedal
    /\ \E N \in PowerOfTwoSizes :
          fft = [pc |-> "constructed", N |-> N, bit_reverse_ |-> NULL,
                 fn |-> "none", stage |-> 0, k |-> 0, j |-> 0,
                 i1 |-> 0, i2 |-> 0, twiddle |-> 0]

\* fft.Init()
FftInit ==
    /\ fft.pc = "constructed"
    /\ fft' = [fft EXCEPT !.pc = "init", !.bit_reverse_ = ShyFFTInit(fft.N)]
    /\ UNCHANGED << rootVars, reverb, sdram, bypass, freeze, isStereoInput, ctl, tick,
                    hist, load, loadedOk, pub, n >>

\* One pass of the body of the loops over stage, k and j (lines 36-46 of
\* Direct, 85-95 of Complex): the indices it computes
FftButterfly(fn) ==
    /\ fft.pc \in {"init", "butterfly"}
    /\ \E stage \in 1..log2N(fft.N) :
         \E m \in {2^stage} :
           \E k \in {kk \in 0..(fft.N - 1) : kk % m = 0} :
             \E j \in 0..((m \div 2) - 1) :
                fft' = [fft EXCEPT !.pc = "butterfly", !.fn = fn,
                                   !.stage = stage, !.k = k, !.j = j,
                                   !.i1 = k + j,
                                   !.i2 = (k + j) + (m \div 2),
                                   !.twiddle = (j * fft.N) \div m]
    /\ UNCHANGED << rootVars, reverb, sdram, bypass, freeze, isStereoInput, ctl, tick,
                    hist, load, loadedOk, pub, n >>

NextFFTIndex == FftInit \/ FftButterfly("Direct") \/ FftButterfly("Complex")

SpecFFTIndex == InitFFTIndex /\ [][NextFFTIndex]_vars

\* C26: after Init() the bit-reversal table of every power-of-two N is a
\* permutation of 0..N-1 that is its own inverse, and every butterfly of
\* Direct and Complex has i1 < i2 < N and a twiddle index below N/2
C26_TableAndButterflyIndices ==
    /\ (fft.pc \in {"init", "butterfly"}) =>
          /\ DOMAIN fft.bit_reverse_ = 0..(fft.N - 1)
          /\ \A i \in 0..(fft.N - 1) :
                /\ fft.bit_reverse_[i] \in 0..(fft.N - 1)
                /\ fft.bit_reverse_[fft.bit_reverse_[i]] = i
          /\ \A i \in 0..(fft.N - 1) : \E k \in 0..(fft.N - 1) :
                fft.bit_reverse_[k] = i
    /\ (fft.pc = "butterfly") =>
          /\ 0 <= fft.i1 /\ fft.i1 < fft.i2 /\ fft.i2 < fft.N
          /\ 0 <= fft.twiddle /\ 2 * fft.twiddle < fft.N

\* The last butterfly of the last stage of the largest transform, with a
\* table that is not the identity
C26_LastButterfly ==
    /\ fft.pc = "butterfly" /\ fft.N = MaxFftSize /\ fft.fn = "Complex"
    /\ fft.stage = log2N(fft.N)
    /\ fft.i2 = fft.N - 1 /\ 2 * fft.twiddle = fft.N - 2
    /\ fft.bit_reverse_[1] = fft.N \div 2


(***************************************************************************)
(* Two runs of the src/src convolver side by side.  The first run is the   *)
(* engine in reverb / sdram, the second one is kept in pub.twin.  Both get *)
(* a true-stereo IR and then the same number of Process calls; pub.kind    *)
(* tells in what the two runs are allowed to differ.                       *)
(***************************************************************************)
MaxTwinTicks == 4

TwinKinds == {"rightInput", "rightIR", "leftInput"}

TwinIrLeft == Buf(IrPatternA, EARLY_FFT_SIZE + LATE_FFT_SIZE)

TwinIrRight == Buf(IrPatternB, EARLY_FFT_SIZE + LATE_FFT_SIZE)

TwinIrRightOther == Arr(<< 1, 1, 0, 2, 0, 1 >>)

\* reverb.LoadStereoIR(irL, irR, length) in both runs
TwinLoad(kind) ==
    /\ reverb.irBuffer = NULL
    /\ \E a \in {LoadStereoIR(Engine, TwinIrLeft, TwinIrRight,
                              EARLY_FFT_SIZE + LATE_FFT_SIZE)} :
       \E b \in {LoadStereoIR(Engine, TwinIrLeft,
                              IF kind = "rightIR" THEN TwinIrRightOther
                                                  ELSE TwinIrRight,
                              EARLY_FFT_SIZE + LATE_FFT_SIZE)} :
          /\ reverb' = a.e.r
          /\ sdram' = a.e.g
          /\ pub' = [kind |-> kind, twin |-> b.e]
          /\ load' = [LoadNone EXCEPT !.call = "LoadStereoIR", !.ret = a.ret,
                                      !.length = EARLY_FFT_SIZE + LATE_FFT_SIZE]
          /\ loadedOk' = a.ret
    /\ UNCHANGED << rootVars, bypass, freeze, isStereoInput, ctl, tick, hist, fft, n >>

\* reverb.Process(inL, inR, ...) in the first run and
\* reverb.Process(inL2, inR2, ...) in the second
TwinProcess(inL, inR, inL2, inR2) ==
    /\ reverb.irBuffer # NULL
    /\ n < MaxTwinTicks
    /\ (pub.kind # "leftInput") => (inL2 = inL)
    /\ (pub.kind # "rightInput") => (inR2 = inR)
    /\ \E a \in {Process(Engine, inL, inR)} :
       \E b \in {Process(pub.twin, inL2, inR2)} :
          /\ reverb' = a.e.r
          /\ sdram' = a.e.g
          /\ pub' = [pub EXCEPT !.twin = b.e]
          /\ hist' = Append(hist, [build |-> "twin",
                                   inL |-> inL, inR |-> inR,
                                   wetL |-> a.wetL, wetR |-> a.wetR,
                                   twinInL |-> inL2, twinInR |-> inR2,
                                   twinWetL |-> b.wetL, twinWetR |-> b.wetR,
                                   earlyBlock |-> a.earlyBlock,
                                   lateBlock |-> a.lateBlock])
    /\ n' = n + 1
    /\ UNCHANGED << rootVars, bypass, freeze, isStereoInput, ctl, tick, load,
                    loadedOk, fft >>

NextChannels ==
    \/ \E kind \in TwinKinds : TwinLoad(kind)
    \/ \E inL \in InSamples, inR \in InSamples,
          inL2 \in InSamples, inR2 \in InSamples :
          TwinProcess(inL, inR, inL2, inR2)

SpecChannels == Init /\ [][NextChannels]_vars

\* C27: with a true-stereo IR and stereoWidth 1.0, two runs that differ only
\* in the right-channel input samples, or only in the right IR, produce the
\* same left wet output at every tick
C27_LeftWetIgnoresRight ==
    (hist # << >> /\ pub.kind \in {"rightInput", "rightIR"}) =>
        \A i \in 1..Len(hist) : hist[i].wetL = hist[i].twinWetL

\* Two runs that differ only in the left-channel input produce the same
\* left wet output at every tick
C27_LeftWetIgnoresLeft ==
    (hist # << >> /\ pub.kind = "leftInput") =>
        \A i \in 1..Len(hist) : hist[i].wetL = hist[i].twinWetL

\* At every tick the left wet output is the right wet output
C27_LeftWetIsRightWet ==
    \A i \in 1..Len(hist) :
        hist[i].wetL = hist[i].wetR /\ hist[i].twinWetL = hist[i].twinWetR

\* Both tiers have produced a block in two runs whose left inputs differ
C27_LeftInputsDiffer ==
    /\ hist # << >> /\ pub.kind = "leftInput"
    /\ \E i \in 1..Len(hist) : hist[i].inL # hist[i].twinInL
    /\ \E i \in 1..Len(hist) : hist[i].lateBlock
    /\ reverb.stereoWidth = 2 /\ reverb.trueStereoIR


\* C28: when a main-loop LoadIR / SetIRLengthFactor call has returned, each
\* tier's stored spectrum is the forward transform of its zero-padded slice
\* of the current IR (the spectra the update computes when it runs alone),
\* also when audio ticks, which use the same scratch buffers earlyTimeOut /
\* g_lateTimeOut, have preempted the call
C28_SpectraOfCurrentIRAfterCall ==
    (ctl = "idle") => Spectra(Engine) = pub.new

\* A tick that ran the early block has preempted the update between the
\* transform of the left early slice and the copy out of earlyTimeOut
C28_BlockBetweenTransformAndCopy ==
    /\ ctl = "earlyCopyL"
    /\ ProcessTick /\ tick.hasIR /\ tick.earlyBlock
    /\ reverb.earlyTimeOut # Direct(EARLY_FFT_SIZE, earlyIrPadded(reverb))


(***************************************************************************)
(* The src/src build with the audio interrupt free to preempt the main     *)
(* loop between the statements of SetPredelay.  predelayInSamples is a     *)
(* plain member written by the main loop and read by the interrupt: the    *)
(* build may store the converted value and then the limit (two stores, as  *)
(* written) or keep the value in a register and store it once.             *)
(***************************************************************************)
MaxKnobTicks == 3

\* HandleKnob2 -> reverb.SetPredelay(value * 500.0f), line 343:
\* predelayMs = ms
MainSetPredelay(value) ==
    /\ ctl = "idle"
    /\ reverb' = [reverb EXCEPT !.predelayMs = value * 250]
    /\ ctl' = "predelayCast"
    /\ UNCHANGED << rootVars, sdram, bypass, freeze, isStereoInput, tick, hist,
                    load, loadedOk, fft, pub, n >>

\* line 344: predelayInSamples = (size_t)(predelayMs * sampleRate / 1000.0f),
\* stored before the limit is applied (twoStores) or together with it
MainSetPredelayCast(twoStores) ==
    /\ ctl = "predelayCast"
    /\ reverb' = [reverb EXCEPT !.predelayInSamples =
                     IF twoStores
                     THEN SizeT(reverb.predelayMs * reverb.sampleRate, 1000,
                                reverb.castWraps)
                     ELSE PredelaySamples(reverb.predelayMs, reverb.sampleRate,
                                          reverb.castWraps)]
    /\ ctl' = IF twoStores THEN "predelayLimit" ELSE "idle"
    /\ UNCHANGED << rootVars, sdram, bypass, freeze, isStereoInput, tick, hist,
                    load, loadedOk, fft, pub, n >>

\* lines 345-347: if (predelayInSamples >= MAX_PREDELAY_SAMPLES)
\*                    predelayInSamples = MAX_PREDELAY_SAMPLES - 1
MainSetPredelayLimit ==
    /\ ctl = "predelayLimit"
    /\ reverb' = [reverb EXCEPT !.predelayInSamples =
                     IF @ >= MAX_PREDELAY_SAMPLES
                     THEN MAX_PREDELAY_SAMPLES - 1 ELSE @]
    /\ ctl' = "idle"
    /\ UNCHANGED << rootVars, sdram, bypass, freeze, isStereoInput, tick, hist,
                    load, loadedOk, fft, pub, n >>

NextKnobRace ==
    \/ /\ n < MaxKnobTicks
       /\ \E in \in InSamples : AudioCallback(in, in)
    \/ HandleFootswitch2
    \/ LoadIRCallback(Buf(IrPatternA, EARLY_FFT_SIZE + LATE_FFT_SIZE), NULL,
                      EARLY_FFT_SIZE + LATE_FFT_SIZE)
    \/ \E value \in KnobValues : MainSetPredelay(value)
    \/ \E twoStores \in BOOLEAN : MainSetPredelayCast(twoStores)
    \/ MainSetPredelayLimit

SpecKnobRace == Init /\ [][NextKnobRace]_vars

\* C29: an audio tick that preempts a main-loop SetPredelay call at any
\* point reads a delay below the capacity of the predelay line (the complete
\* previous value or the complete new limited value), never the value
\* before the limit
C29_TickSeesLimitedDelay ==
    (ProcessTick /\ tick.hasIR) => tick.predelayInSamples < MAX_PREDELAY_SAMPLES

\* Between two calls of SetPredelay the stored delay is inside the line
C29_LimitedWhenIdle ==
    (ctl = "idle") => reverb.predelayInSamples < MAX_PREDELAY_SAMPLES

\* The tick that reads the whole capacity as its delay reads the sample it
\* has just written
C29_UnlimitedDelayReadsNewest ==
    (ProcessTick /\ tick.hasIR
       /\ tick.predelayInSamples = MAX_PREDELAY_SAMPLES) =>
        (tick.delayedL = tick.procL /\ tick.delayedR = tick.procR)

C29_TickInsideSetPredelay ==
    /\ ProcessTick /\ tick.hasIR /\ ctl = "predelayLimit"
    /\ tick.predelayInSamples = MAX_PREDELAY_SAMPLES


(***************************************************************************)
(* The root build with a USB stick mounted and removed between callbacks.  *)
(* For each of the three modes a stick holds no file, the mono file or the *)
(* _L / _R pair; every file has samples and fits the IR arrays.            *)
(***************************************************************************)
MaxUsbTicks == 2

WavFile(samples) == [buffer |-> Arr(samples), numSamples |-> Len(samples)]

\* The files of mode m on a stick that has them in the given kind
FilesOf(m, kind) ==
    CASE kind = "none" -> NoFiles
      [] kind = "mono" -> [NoFiles EXCEPT !.mono = WavFile(<< 10 + m, 5, m >>)]
      [] kind = "pair" -> [L |-> WavFile(<< 15 + m, 5, m, 1 >>),
                           R |-> WavFile(<< 15 + m, 6, m, 2 >>),
                           mono |-> NULL]

Sticks ==
    { [m \in 0..2 |-> FilesOf(m, kinds[m])] :
          kinds \in [0..2 -> {"none", "mono", "pair"}] }

UsbControls ==
    { [CtlBase EXCEPT !.switchPos = m, !.usb = stick] :
          m \in 0..2, stick \in Sticks \cup {NULL} }

NextUsb ==
    /\ n < MaxUsbTicks
    /\ \E ctrl \in UsbControls : \E in \in InSamples :
          ConvAudioCallback(ctrl, in, in)

SpecUsb == Init /\ [][NextUsb]_vars

\* The IR the engine convolves with
ConvActiveIR(c) ==
    [trueStereoIR |-> c.trueStereoIR, irLength |-> c.irLength,
     L |-> [i \in 0..(c.irLength - 1) |-> c.irBuffer[i]],
     R |-> [i \in 0..(c.irLength - 1) |-> c.irBufferRight[i]]]

\* The IR the arrays hold for mode m, as LoadStereoIR / LoadIR would store it
ModeIR(g, m) ==
    [trueStereoIR |-> g.isStereoIR[m], irLength |-> g.irLength[m],
     L |-> [i \in 0..(g.irLength[m] - 1) |-> g.echoBridgeIR[m][i]],
     R |-> [i \in 0..(g.irLength[m] - 1) |->
              IF g.isStereoIR[m] THEN g.echoBridgeIR_R[m][i]
              ELSE g.echoBridgeIR[m][i]]]

\* The modes a stick has files for
ModesOn(stick) == {m \in 0..2 : stick[m] # NoFiles}

RootTick == tick.mode \in {"bypass", "process"}

\* C30: at the end of a callback that found a stick newly mounted (and
\* called LoadIRFromUSB for the full, short and long mode in turn) the IR
\* active in the engine is the IR of the selected irMode, for every selected
\* mode and every combination of files on the stick
C30_ActiveIRIsSelectedMode ==
    (RootTick /\ tick.mounted) =>
        ConvActiveIR(convReverb) = ModeIR(root, root.irMode)

\* When the selector stays where it was, the active IR after the mount is
\* that of the last mode the stick has files for
C30_ActiveIRIsLastLoaded ==
    (RootTick /\ tick.mounted /\ n = 1 /\ root.irMode = IR_FULL_BRIDGE
       /\ ModesOn(tick.usb) # {}) =>
        ConvActiveIR(convReverb)
            = ModeIR(root, CHOOSE m \in ModesOn(tick.usb) :
                              \A k \in ModesOn(tick.usb) : k <= m)

\* A mount with the full mode selected and files for all three modes
C30_AllModesLoaded ==
    /\ RootTick /\ tick.mounted /\ root.irMode = IR_FULL_BRIDGE
    /\ ModesOn(tick.usb) = 0..2
    /\ ConvActiveIR(convReverb) = ModeIR(root, IR_LONG_DECAY)

=============================================================================
